---------------------------- MODULE Spec2Model ----------------------------
(***************************************************************************)
(* Model of the legal-document assistant: the in-memory stores, the        *)
(* keyword search of the Document Store, the query / writing / indexing    *)
(* use cases with the services they call, and the scoring helpers.         *)
(*                                                                         *)
(* Texts (titles, contents, queries) are sequences of one-character        *)
(* strings, so that toLowerCase, split(' ') and includes are computed.     *)
(* A JavaScript Map is a sequence of [key, val] entries in insertion       *)
(* order.  Numbers that are fractions in the code are kept exact as        *)
(* [num, den] records.                                                     *)
(***************************************************************************)
EXTENDS Integers, Sequences, FiniteSets, TLC

VARIABLES
    documents,   \* LegalDocumentRepository.documents : Map<string, LegalDocument>
    ret,         \* outcome of the last call on the Document Store
    queries,     \* LegalQueryRepository.queries
    qResponses,  \* LegalQueryRepository.responses
    writings,    \* LegalWritingRepository.writings
    wResponses,  \* LegalWritingRepository.responses
    nextId,      \* number of identifiers uuidv4() has handed out
    result,      \* outcome of the last use-case call
    calc         \* last application of a pure helper

vars == <<documents, ret, queries, qResponses, writings, wResponses, nextId, result, calc>>

storeVars == <<documents, ret>>
useCaseVars == <<queries, qResponses, writings, wResponses, nextId, result>>

-----------------------------------------------------------------------------
(* Bounds of the model *)

MaxDocs == 2

-----------------------------------------------------------------------------
(* JavaScript values *)

Null == [null |-> TRUE]

(* the value of ret, result and calc before any call was made *)
NoCall == [op |-> "none"]

(* undefined, where a string is expected (an optional argument that is not given) *)
Undefined == "undefined"

(* the truthiness test of a string-or-undefined value: if (x) *)
Truthy(x) == x # Undefined /\ x # ""

RECURSIVE SumSeq(_)
SumSeq(s) == IF s = <<>> THEN 0 ELSE Head(s) + SumSeq(Tail(s))

Min(a, b) == IF a <= b THEN a ELSE b

(* the letters, as <<lower case, upper case>> *)
Letters ==
    { <<"a", "A">>, <<"b", "B">>, <<"c", "C">>, <<"d", "D">>, <<"e", "E">>, <<"f", "F">>,
      <<"g", "G">>, <<"h", "H">>, <<"i", "I">>, <<"j", "J">>, <<"k", "K">>, <<"l", "L">>,
      <<"m", "M">>, <<"n", "N">>, <<"o", "O">>, <<"p", "P">>, <<"q", "Q">>, <<"r", "R">>,
      <<"s", "S">>, <<"t", "T">>, <<"u", "U">>, <<"v", "V">>, <<"w", "W">>, <<"x", "X">>,
      <<"y", "Y">>, <<"z", "Z">> }

LowerChar(c) ==
    IF \E l \in Letters : l[2] = c THEN (CHOOSE l \in Letters : l[2] = c)[1] ELSE c

UpperChar(c) ==
    IF \E l \in Letters : l[1] = c THEN (CHOOSE l \in Letters : l[1] = c)[2] ELSE c

(* String.prototype.toLowerCase *)
ToLowerCase(s) == [i \in 1..Len(s) |-> LowerChar(s[i])]

(* String.prototype.toUpperCase *)
ToUpperCase(s) == [i \in 1..Len(s) |-> UpperChar(s[i])]

(* s.substring(0, n) *)
Substring0(s, n) == SubSeq(s, 1, Min(n, Len(s)))

(* Array.prototype.join of texts *)
RECURSIVE Join(_, _)
Join(parts, sep) ==
    IF parts = <<>> THEN <<>>
    ELSE IF Len(parts) = 1 THEN parts[1]
    ELSE parts[1] \o sep \o Join(Tail(parts), sep)

(* what a function call ends with: a returned value or a thrown Error *)
Returns(v) == [ok |-> TRUE, value |-> v]

Throws(m) == [ok |-> FALSE, message |-> m]

(* String.prototype.includes: t occurs in s as a contiguous substring *)
Includes(s, t) ==
    \E i \in 1..(Len(s) - Len(t) + 1) : SubSeq(s, i, i + Len(t) - 1) = t

(* String.prototype.split on a set of separator characters; with runs = TRUE a
   run of separators counts as one separator (the regular expression /[..]+/) *)
RECURSIVE SplitFrom(_, _, _, _)
SplitFrom(s, seps, runs, cur) ==
    IF s = <<>> THEN <<cur>>
    ELSE IF Head(s) \in seps
         THEN IF runs /\ Tail(s) # <<>> /\ Head(Tail(s)) \in seps
              THEN SplitFrom(Tail(s), seps, runs, cur)
              ELSE <<cur>> \o SplitFrom(Tail(s), seps, runs, <<>>)
         ELSE SplitFrom(Tail(s), seps, runs, Append(cur, Head(s)))

(* split(' '): the pieces between single spaces, empty pieces kept *)
Split(s) == SplitFrom(s, {" "}, FALSE, <<>>)

(* split('\n'): the pieces between one line feed and the next, empty pieces
   kept *)
RECURSIVE SplitLines(_)
SplitLines(s) ==
    IF \A i \in 1..Len(s) : s[i] # "\n"
    THEN <<s>>
    ELSE LET feed == CHOOSE i \in 1..Len(s) :
                         s[i] = "\n" /\ \A j \in 1..i - 1 : s[j] # "\n"
         IN  <<SubSeq(s, 1, feed - 1)>> \o SplitLines(SubSeq(s, feed + 1, Len(s)))

(* split(/[.!?]+/) *)
SplitSentences(s) == SplitFrom(s, {".", "!", "?"}, TRUE, <<>>)

WhiteSpace == {" ", "\n", "\t"}

(* String.prototype.trim *)
RECURSIVE TrimStart(_)
TrimStart(s) == IF s # <<>> /\ Head(s) \in WhiteSpace THEN TrimStart(Tail(s)) ELSE s

RECURSIVE TrimEnd(_)
TrimEnd(s) ==
    IF s # <<>> /\ s[Len(s)] \in WhiteSpace THEN TrimEnd(SubSeq(s, 1, Len(s) - 1)) ELSE s

Trim(s) == TrimEnd(TrimStart(s))

(* slice(0, n) taken one element too far *)
SliceOneTooMany(s, n) == SubSeq(s, 1, Min(n + 1, Len(s)))

(* Array.prototype.slice(0, n) for n >= 0 *)
Slice0(s, n) == SubSeq(s, 1, Min(n, Len(s)))

-----------------------------------------------------------------------------
(* Exact fractions: the code computes in floating point, the model keeps the
   exact quotient num / den (den > 0) *)

Frac(n, d) == [num |-> n, den |-> d]

FracEq(a, b) == a.num * b.den = b.num * a.den

FracLeq(a, b) == a.num * b.den <= b.num * a.den

FracPositive(a) == a.num > 0

FracAdd(a, b) == Frac(a.num * b.den + b.num * a.den, a.den * b.den)

FracMul(a, b) == Frac(a.num * b.num, a.den * b.den)

(* Math.min *)
FracMin(a, b) == IF FracLeq(a, b) THEN a ELSE b

-----------------------------------------------------------------------------
(* The Document entity *)

DocumentType == {"PENAL_CODE", "CIVIL_CODE", "COMMERCIAL_CODE", "CASE_LAW", "LEGAL_OPINION", "OTHER"}

(* the fields of LegalDocument the model carries; of metadata only tags *)
DocFields == {"id", "title", "content", "source", "documentType", "tags"}

(* documentType.toLowerCase() *)
LowerCaseType(t) ==
    CASE t = "PENAL_CODE" -> "penal_code"
      [] t = "CIVIL_CODE" -> "civil_code"
      [] t = "COMMERCIAL_CODE" -> "commercial_code"
      [] t = "CASE_LAW" -> "case_law"
      [] t = "LEGAL_OPINION" -> "legal_opinion"
      [] t = "OTHER" -> "other"
      [] t = "INVALID_TYPE" -> "invalid_type"

-----------------------------------------------------------------------------
(* Map<string, V> as a sequence of entries in insertion order *)

MapKeys(m) == {m[i].key : i \in 1..Len(m)}

MapHas(m, k) == k \in MapKeys(m)

MapIndex(m, k) == CHOOSE i \in 1..Len(m) : m[i].key = k

(* Map.prototype.get(k) || null *)
MapGet(m, k) == IF MapHas(m, k) THEN m[MapIndex(m, k)].val ELSE Null

(* Map.prototype.set leaving the entry a key already has in place *)
MapSetKeepsOld(m, k, v) == Append(m, [key |-> k, val |-> v])

(* Map.prototype.set: an existing key keeps its place, a new key goes last *)
MapSet(m, k, v) ==
    IF MapHas(m, k)
    THEN [m EXCEPT ![MapIndex(m, k)] = [key |-> k, val |-> v]]
    ELSE Append(m, [key |-> k, val |-> v])

(* Map.prototype.delete removing nothing *)
MapDeleteNothing(m, k) == m

(* Map.prototype.delete *)
MapDelete(m, k) == SelectSeq(m, LAMBDA e : e.key # k)

(* Array.from(map.values()) *)
MapValues(m) == [i \in 1..Len(m) |-> m[i].val]

-----------------------------------------------------------------------------
(* LegalDocumentRepository *)

MockRelevanceScore == Frac(4, 5)

MockMatchedSections == <<"full document">>

(* the filter predicate of search, inverted *)
SearchMatchesInverted(doc, query) ==
    ~(\/ Includes(ToLowerCase(doc.title), ToLowerCase(query))
      \/ Includes(ToLowerCase(doc.content), ToLowerCase(query)))

(* the filter predicate of search: the whole lower-cased query is a substring
   of the lower-cased title or of the lower-cased content *)
SearchMatches(doc, query) ==
    \/ Includes(ToLowerCase(doc.title), ToLowerCase(query))
    \/ Includes(ToLowerCase(doc.content), ToLowerCase(query))

ToSearchResult(doc) ==
    [document |-> doc, relevanceScore |-> MockRelevanceScore, matchedSections |-> MockMatchedSections]

(* search(query, documentType?, limit): documentType = Undefined when it is not given *)
search(docs, query, documentType, limit) ==
    LET matched  == SelectSeq(MapValues(docs), LAMBDA d : SearchMatches(d, query))
        filtered == IF Truthy(documentType)
                    THEN SelectSeq(matched, LAMBDA d : d.documentType = documentType)
                    ELSE matched
        kept     == Slice0(filtered, limit)
    IN  [i \in 1..Len(kept) |-> ToSearchResult(kept[i])]

findById(docs, id) == MapGet(docs, id)

findAll(docs) == MapValues(docs)

findByType(docs, documentType) ==
    SelectSeq(MapValues(docs), LAMBDA d : d.documentType = documentType)

(* { ...existing, ...document }: the fields the partial gives replace the stored ones *)
(* the spread that ignores the given fields *)
OverlayKeepsExisting(existing, partial) == existing

Overlay(existing, partial) ==
    [f \in DOMAIN existing |-> IF f \in DOMAIN partial THEN partial[f] ELSE existing[f]]

(* { ...existing, ...document, updatedAt: new Date() }, now being the time of the call *)
Refreshed(existing, partial, now) ==
    [Overlay(existing, partial) EXCEPT !.updatedAt = now]


-----------------------------------------------------------------------------
(* AIService.generateContent: the external text generation.  A call ends with
   the generated text or with a thrown Error *)

AiText(t) == [ok |-> TRUE, text |-> t]

AiError(m) == [ok |-> FALSE, message |-> m]

-----------------------------------------------------------------------------
(* The helpers LegalQueryService and LegalWritingService both define *)

MinSentenceLength == 10

MaxRelevantSections == 5

AnswerContextChars == 1000

ReasoningContextChars == 500

(* documents.map(doc => `${doc.title}: ${doc.content.substring(0, n)}`).join('\n\n') *)
ContextText(docs, n) ==
    Join([i \in 1..Len(docs) |-> docs[i].title \o <<":", " ">> \o Substring0(docs[i].content, n)],
         <<"\n", "\n">>)

extractRelevantSections(content, query) ==
    LET sentences  == SelectSeq(SplitSentences(content),
                                LAMBDA x : Len(Trim(x)) > MinSentenceLength)
        queryWords == Split(ToLowerCase(query))
        matching   == SelectSeq(sentences,
                          LAMBDA x : \E i \in 1..Len(queryWords) :
                                        Includes(ToLowerCase(x), queryWords[i]))
        sections   == [i \in 1..Len(matching) |-> Trim(matching[i])]
    IN  Slice0(sections, MaxRelevantSections)

calculateRelevanceScore(content, query) ==
    LET queryWords   == Split(ToLowerCase(query))
        contentLower == ToLowerCase(content)
        matchCount   == Cardinality({i \in 1..Len(queryWords) : Includes(contentLower, queryWords[i])})
    IN  FracMin(Frac(matchCount, Len(queryWords)), Frac(1, 1))

RECURSIVE SumRelevance(_, _)
SumRelevance(docs, query) ==
    IF docs = <<>> THEN Frac(0, 1)
    ELSE FracAdd(SumRelevance(SubSeq(docs, 1, Len(docs) - 1), query),
                 calculateRelevanceScore(docs[Len(docs)].content, query))

(* the confidence computed without the 0.3 floor *)
calculateConfidenceNoFloor(docs, query) ==
    IF Len(docs) = 0 THEN Frac(3, 10)
    ELSE FracMin(FracMul(FracMul(SumRelevance(docs, query), Frac(1, Len(docs))), Frac(7, 10)),
                 Frac(1, 1))

calculateConfidence(docs, query) ==
    IF Len(docs) = 0 THEN Frac(3, 10)
    ELSE LET avgRelevance == FracMul(SumRelevance(docs, query), Frac(1, Len(docs)))
         IN  FracMin(FracAdd(FracMul(avgRelevance, Frac(7, 10)), Frac(3, 10)), Frac(1, 1))

(* sources scored on the titles of the documents *)
SourcesScoredByTitle(docs, query) ==
    [i \in 1..Len(docs) |->
        [documentId |-> docs[i].id,
         title |-> docs[i].title,
         relevantSections |-> extractRelevantSections(docs[i].content, query),
         relevanceScore |-> calculateRelevanceScore(docs[i].title, query)]]

(* sources: one LegalDocumentReference per retrieved document *)
Sources(docs, query) ==
    [i \in 1..Len(docs) |->
        [documentId |-> docs[i].id,
         title |-> docs[i].title,
         relevantSections |-> extractRelevantSections(docs[i].content, query),
         relevanceScore |-> calculateRelevanceScore(docs[i].content, query)]]

-----------------------------------------------------------------------------
(* LegalQueryService *)

(* retrieval handing back what the Document Store holds *)
searchRelevantDocumentsFromStore(query) == MapValues(documents)

(* searchRelevantDocuments: "for now, return mock data" *)
searchRelevantDocuments(query) == <<>>

AnswerPrompt(query, context) ==
    <<"You are a legal expert specializing in Argentine law. Answer the following legal question based on the provided context. Context: ">>
        \o ContextText(context, AnswerContextChars)
        \o <<" Question: ">> \o query
        \o <<" Please provide a comprehensive legal answer in Spanish, citing relevant laws and precedents when possible.">>

ReasoningPrompt(question, docs) ==
    <<"Explain the legal reasoning behind answering this question: ">> \o question
        \o <<" Based on the following legal context: ">>
        \o ContextText(docs, ReasoningContextChars)
        \o <<" Provide a clear explanation of the legal principles and reasoning used.">>

(* generateAnswer letting a failure of generateContent through *)
generateAnswerRethrows(query, context, ai) ==
    IF ai.ok THEN Returns(ai.text) ELSE Throws(ai.message)

(* generateAnswer: a failure of generateContent is caught and becomes the answer *)
generateAnswer(query, context, ai) ==
    IF ai.ok THEN Returns(ai.text)
    ELSE Returns(<<"I apologize, but I encountered an error while processing your legal question: ">>
                     \o ai.message
                     \o <<". Please try rephrasing your question or contact support.">>)

(* generateReasoning: a failure of generateContent is caught *)
generateReasoning(question, docs, ai) ==
    IF ai.ok THEN Returns(ai.text) ELSE Returns(<<"Unable to generate reasoning at this time.">>)

(* processQuery from the retrieved documents on; base is the number of uuids
   handed out so far, aiAnswer and aiReasoning are how the two generateContent
   calls end *)
processQueryWith(relevantDocuments, request, base, aiAnswer, aiReasoning) ==
    LET answer    == generateAnswer(request.question, relevantDocuments, aiAnswer)
        reasoning == generateReasoning(request.question, relevantDocuments, aiReasoning)
    IN  IF ~answer.ok
        THEN Throws(<<"Failed to process legal query: ">> \o answer.message)
        ELSE IF ~reasoning.ok
        THEN Throws(<<"Failed to process legal query: ">> \o reasoning.message)
        ELSE Returns(
               [id |-> base + 1,
                queryId |-> base + 2,
                answer |-> answer.value,
                sources |-> Sources(relevantDocuments, request.question),
                confidence |-> calculateConfidence(relevantDocuments, request.question),
                reasoning |-> reasoning.value])

processQuery(request, base, aiAnswer, aiReasoning) ==
    processQueryWith(searchRelevantDocuments(request.question), request, base, aiAnswer, aiReasoning)

-----------------------------------------------------------------------------
(* LegalWritingService *)

searchRelevantPrecedents(prompt) == <<>>

Digits == {"0", "1", "2", "3", "4", "5", "6", "7", "8", "9"}

(* trimmedLine.match(/^\d+\./): one or more digits, then a dot *)
RECURSIVE DigitsThenDot(_, _)
DigitsThenDot(line, seen) ==
    IF line = <<>> THEN FALSE
    ELSE IF Head(line) \in Digits THEN DigitsThenDot(Tail(line), TRUE)
    ELSE seen /\ Head(line) = "."

MinCapsHeaderLength == 3

(* the header test without its numbered-line alternative *)
IsSectionHeaderCapsOnly(trimmedLine) ==
    Len(trimmedLine) > MinCapsHeaderLength /\ trimmedLine = ToUpperCase(trimmedLine)

IsSectionHeader(trimmedLine) ==
    \/ DigitsThenDot(trimmedLine, FALSE)
    \/ (Len(trimmedLine) > MinCapsHeaderLength /\ trimmedLine = ToUpperCase(trimmedLine))

(* the loop of parseSections counting every header, emitted or not *)
RECURSIVE ParseLinesCountsHeaders(_, _, _, _, _)
ParseLinesCountsHeaders(lines, sections, currentSection, currentContent, order) ==
    IF lines = <<>>
    THEN IF currentSection # <<>> /\ currentContent # <<>>
         THEN Append(sections, [title |-> currentSection, content |-> Trim(currentContent),
                                order |-> order])
         ELSE sections
    ELSE LET line == Head(lines)
             trimmedLine == Trim(line)
         IN  IF IsSectionHeader(trimmedLine)
             THEN ParseLinesCountsHeaders(
                      Tail(lines),
                      IF currentSection # <<>> /\ currentContent # <<>>
                      THEN Append(sections, [title |-> currentSection,
                                             content |-> Trim(currentContent),
                                             order |-> order])
                      ELSE sections,
                      trimmedLine, <<>>, IF currentSection # <<>> THEN order + 1 ELSE order)
             ELSE ParseLinesCountsHeaders(Tail(lines), sections, currentSection,
                                          currentContent \o line \o <<"\n">>, order)

(* the loop of parseSections over the remaining lines; a text is truthy when
   it is not empty *)
RECURSIVE ParseLines(_, _, _, _, _)
ParseLines(lines, sections, currentSection, currentContent, order) ==
    IF lines = <<>>
    THEN IF currentSection # <<>> /\ currentContent # <<>>
         THEN Append(sections, [title |-> currentSection, content |-> Trim(currentContent),
                                order |-> order])
         ELSE sections
    ELSE LET line == Head(lines)
             trimmedLine == Trim(line)
         IN  IF IsSectionHeader(trimmedLine)
             THEN IF currentSection # <<>> /\ currentContent # <<>>
                  THEN ParseLines(Tail(lines),
                                  Append(sections, [title |-> currentSection,
                                                    content |-> Trim(currentContent),
                                                    order |-> order]),
                                  trimmedLine, <<>>, order + 1)
                  ELSE ParseLines(Tail(lines), sections, trimmedLine, <<>>, order)
             ELSE ParseLines(Tail(lines), sections, currentSection,
                             currentContent \o line \o <<"\n">>, order)

(* parseSections taking the text before the first header for a section *)
parseSectionsKeepsPreamble(content) ==
    ParseLines(SplitLines(content), <<>>, <<"P">>, <<>>, 1)

parseSections(content) == ParseLines(SplitLines(content), <<>>, <<>>, <<>>, 1)

getDocumentPrompt(prompt, context) ==
    <<"You are an expert Argentine lawyer. Generate a professional legal document based on the following request. Request: ">>
        \o prompt
        \o <<" Context from relevant legal sources: ">> \o context
        \o <<" Please generate a complete, professional legal document in Spanish. Format the document with clear sections and subsections.">>

(* generateLegalContent: a failure of generateContent is rethrown *)
generateLegalContent(prompt, context, ai) ==
    IF ai.ok
    THEN Returns([content |-> ai.text,
                  sections |-> parseSections(ai.text),
                  confidence |-> calculateConfidence(context, prompt)])
    ELSE Throws(<<"Failed to generate legal content: ">> \o ai.message)

(* generateDocument from the retrieved precedents on *)
generateDocumentWith(relevantPrecedents, request, base, ai) ==
    LET generatedContent == generateLegalContent(request.prompt, relevantPrecedents, ai)
    IN  IF generatedContent.ok
        THEN Returns(
               [id |-> base + 1,
                writingId |-> base + 2,
                content |-> generatedContent.value.content,
                title |-> request.title,
                sections |-> generatedContent.value.sections,
                sources |-> Sources(relevantPrecedents, request.prompt),
                confidence |-> generatedContent.value.confidence])
        ELSE Throws(<<"Failed to generate legal document: ">> \o generatedContent.message)

generateDocument(request, base, ai) ==
    generateDocumentWith(searchRelevantPrecedents(request.prompt), request, base, ai)

(* reviewDocument: a fixed response *)
reviewDocument(documentId, feedback, base) ==
    [id |-> base + 1,
     writingId |-> documentId,
     content |-> <<"Reviewed document ">> \o <<ToString(documentId)>> \o <<" with feedback: ">> \o feedback,
     title |-> <<"Reviewed Document">>,
     sections |-> <<>>,
     sources |-> <<>>,
     confidence |-> Frac(1, 1)]

-----------------------------------------------------------------------------
(* DocumentIndexingService *)

AssetsPath == <<".", "/", "a", "s", "s", "e", "t", "s">>

TitleMaxLength == 100

(* path.join(assetsPath, filePath), normalised *)
PathJoin(dir, p) ==
    (IF Len(dir) >= 2 /\ SubSeq(dir, 1, 2) = <<".", "/">> THEN SubSeq(dir, 3, Len(dir)) ELSE dir)
        \o <<"/">> \o p

(* path.basename(p) *)
Basename(p) == LET parts == SplitFrom(p, {"/"}, FALSE, <<>>) IN parts[Len(parts)]

(* path.extname(name): from the last dot on, empty when there is none or when
   the only dot is the first character *)
Extname(name) ==
    LET dots == {i \in 2..Len(name) : name[i] = "."}
    IN  IF dots = {} THEN <<>>
        ELSE SubSeq(name, CHOOSE i \in dots : \A j \in dots : j <= i, Len(name))

(* path.basename(name, ext) *)
BasenameWithout(name, ext) ==
    LET b == Basename(name)
    IN  IF ext # <<>> /\ Len(b) > Len(ext) /\ SubSeq(b, Len(b) - Len(ext) + 1, Len(b)) = ext
        THEN SubSeq(b, 1, Len(b) - Len(ext))
        ELSE b

(* extractTitle looking at the first line, blank or not *)
extractTitleFirstLine(fileName, content) ==
    LET lines == SplitLines(content)
    IN  IF Len(lines) > 0 /\ Len(lines[1]) < TitleMaxLength
        THEN Trim(lines[1])
        ELSE BasenameWithout(fileName, Extname(fileName))

extractTitle(fileName, content) ==
    LET lines == SelectSeq(SplitLines(content), LAMBDA l : Len(Trim(l)) > 0)
    IN  IF Len(lines) > 0 /\ Len(lines[1]) < TitleMaxLength
        THEN Trim(lines[1])
        ELSE BasenameWithout(fileName, Extname(fileName))

(* the files under the assets directory: what pdf-parse makes of each.  A path
   that is not listed does not exist *)
GoodPath == <<"a", ".", "p", "d", "f">>

BadPath == <<"x", ".", "p", "d", "f">>

MissingPath == <<"m", ".", "p", "d", "f">>

(* files in the folders of the assets directory *)
CivilLower == <<"c", "i", "v", "i", "l", "-", "c", "o", "d", "e", "/", "c", ".", "p", "d", "f">>

CivilUpper == <<"c", "i", "v", "i", "l", "-", "c", "o", "d", "e", "/", "D", ".", "P", "D", "F">>

MiscBroken == <<"m", "i", "s", "c", "/", "x", ".", "p", "d", "f">>

MiscNotes == <<"m", "i", "s", "c", "/", "n", ".", "t", "x", "t">>

MiscNext == <<"m", "i", "s", "c", "/", "y", ".", "p", "d", "f">>

MiscNested == <<"m", "i", "s", "c", "/", "o", "l", "d", "/", "o", ".", "p", "d", "f">>

AssetFiles ==
    { [path |-> PathJoin(AssetsPath, GoodPath),
       pdf |-> Returns([text |-> <<"T", "\n", "A", " ", "b">>, numpages |-> 1])],
      [path |-> PathJoin(AssetsPath, BadPath),
       pdf |-> Throws(<<"Invalid PDF structure">>)] }
    \cup [path : {PathJoin(AssetsPath, p) : p \in {CivilLower, CivilUpper, MiscNext, MiscNested}},
          pdf : {Returns([text |-> <<"T", "\n", "A", " ", "b">>, numpages |-> 1])}]
    \cup [path : {PathJoin(AssetsPath, MiscBroken)}, pdf : {Throws(<<"Invalid PDF structure">>)}]

(* fs.existsSync *)
ExistsSync(fullPath) == \E f \in AssetFiles : f.path = fullPath

FileAt(fullPath) == CHOOSE f \in AssetFiles : f.path = fullPath

(* uuidv4() handing out the same id every time *)
uuidv4Constant(base) == 1

(* uuidv4(): an id no earlier call returned; base is the number of uuids handed
   out so far *)
uuidv4(base) == base + 1

(* indexDocument, once pdf-parse has settled: the document built from the
   text; base is the number of uuids handed out so far *)
IndexParsed(pdfData, filePath, documentType, base) ==
    IF ~pdfData.ok THEN pdfData
    ELSE IF documentType = Undefined
    THEN Throws(<<"Cannot read properties of undefined (reading 'toLowerCase')">>)
    ELSE Returns(
           [id |-> uuidv4(base),
            title |-> extractTitle(Basename(filePath), pdfData.value.text),
            content |-> pdfData.value.text,
            source |-> filePath,
            documentType |-> documentType,
            tags |-> <<LowerCaseType(documentType)>>])

(* the try block of indexDocument *)
IndexFileAt(fullPath, filePath, documentType, base) ==
    IF ~ExistsSync(fullPath)
    THEN Throws(<<"File not found: ">> \o fullPath)
    ELSE IndexParsed(FileAt(fullPath).pdf, filePath, documentType, base)

(* the catch block of indexDocument *)
IndexingFailure(body) ==
    IF body.ok THEN body
    ELSE Throws(<<"Failed to index document: ">> \o body.message)

(* indexDocument: base is the number of uuids handed out so far *)
indexDocument(filePath, documentType, base) ==
    IndexingFailure(IndexFileAt(PathJoin(AssetsPath, filePath), filePath, documentType, base))

-----------------------------------------------------------------------------
(* Inputs of the Document Store calls *)

Ids == 1..MaxDocs

SampleTypes == {"CIVIL_CODE", "PENAL_CODE"}

SamplePath == <<"a", ".", "p", "d", "f">>

(* the time at which update is called; a saved document was last updated at 0 *)
Times == {1}

(* documents of the store runs: they differ in id and title *)
StoreDocs ==
    [id : Ids, title : { <<"T">>, <<"b">> }, content : { <<"c">> }, source : {SamplePath},
     documentType : {"CIVIL_CODE"}, tags : { <<"civil_code">> }, updatedAt : {0}]

(* documents of the search runs: two texts, in two categories *)
SampleTexts ==
    { [title |-> <<"T">>, content |-> <<"A", " ", "b">>],
      [title |-> <<"b">>, content |-> <<"c">>] }

SearchDocs ==
    { [id |-> i, title |-> t.title, content |-> t.content, source |-> SamplePath,
       documentType |-> ty, tags |-> <<LowerCaseType(ty)>>] :
        i \in Ids, t \in SampleTexts, ty \in SampleTypes }

Queries == { <<"a", " ", "b">>, <<"b", " ", "c">>, <<"b">>, <<"t">> }

Limits == 0..MaxDocs

Restrict(d, F) == [f \in F |-> d[f]]

(* what update is given: any of the fields id and title, with any value, or an
   updatedAt of its own *)
StorePartials ==
    { Restrict(d, F) : d \in StoreDocs, F \in SUBSET {"id", "title"} } \cup { [updatedAt |-> 0] }

NotFoundMessage(id) == <<"Document with id ", ToString(id), " not found">>

-----------------------------------------------------------------------------
(* Calls on LegalDocumentRepository *)

otherThanStore == <<queries, qResponses, writings, wResponses, nextId, result, calc>>

Save(document) ==
    /\ documents' = MapSet(documents, document.id, document)
    /\ ret' = [op |-> "save", value |-> document]
    /\ UNCHANGED otherThanStore

FindById(id) ==
    /\ ret' = [op |-> "findById", id |-> id, value |-> findById(documents, id)]
    /\ UNCHANGED documents
    /\ UNCHANGED otherThanStore

FindAll ==
    /\ ret' = [op |-> "findAll", value |-> findAll(documents)]
    /\ UNCHANGED documents
    /\ UNCHANGED otherThanStore

Delete(id) ==
    /\ documents' = MapDelete(documents, id)
    /\ ret' = [op |-> "delete", id |-> id, value |-> MapHas(documents, id)]
    /\ UNCHANGED otherThanStore

Search(query, documentType, limit) ==
    /\ ret' = [op |-> "search", query |-> query, documentType |-> documentType,
               limit |-> limit, value |-> search(documents, query, documentType, limit)]
    /\ UNCHANGED documents
    /\ UNCHANGED otherThanStore

Update(id, partial, now) ==
    /\ IF ~MapHas(documents, id)
       THEN /\ ret' = [op |-> "update", id |-> id, partial |-> partial, now |-> now,
                       threw |-> NotFoundMessage(id)]
            /\ UNCHANGED documents
       ELSE LET updated == Refreshed(MapGet(documents, id), partial, now)
            IN  /\ documents' = MapSet(documents, id, updated)
                /\ ret' = [op |-> "update", id |-> id, partial |-> partial, now |-> now,
                           value |-> updated]
    /\ UNCHANGED otherThanStore

Init ==
    /\ documents = <<>>
    /\ ret = NoCall
    /\ queries = <<>>
    /\ qResponses = <<>>
    /\ writings = <<>>
    /\ wResponses = <<>>
    /\ nextId = 0
    /\ result = NoCall
    /\ calc = NoCall

(* the Document Store under save, update, delete and the lookups *)
StoreNext ==
    \/ \E d \in StoreDocs : Save(d)
    \/ \E id \in Ids, p \in StorePartials, now \in Times : Update(id, p, now)
    \/ \E id \in Ids : Delete(id)
    \/ \E id \in Ids : FindById(id)
    \/ FindAll

SpecStore == Init /\ [][StoreNext]_vars

(* the Document Store under save, delete and search *)
SearchNext ==
    \/ \E d \in SearchDocs : Save(d)
    \/ \E id \in Ids : Delete(id)
    \/ \E q \in Queries, t \in SampleTypes \cup {Undefined}, k \in Limits : Search(q, t, k)

SpecSearch == Init /\ [][SearchNext]_vars

-----------------------------------------------------------------------------
(* Properties of search *)

(* the lower-cased tokens of a query, as the scoring helpers split it *)
Tokens(query) == Split(ToLowerCase(query))

TokenSet(query) == {Tokens(query)[i] : i \in 1..Len(Tokens(query))}

InContent(tok, doc) == Includes(ToLowerCase(doc.content), tok)

InTitle(tok, doc) == Includes(ToLowerCase(doc.title), tok)

StoredDocs == {documents[i].val : i \in 1..Len(documents)}

Returned == {ret.value[i] : i \in 1..Len(ret.value)}

MatchedTokens(query, doc) ==
    Cardinality({i \in 1..Len(Tokens(query)) : InContent(Tokens(query)[i], doc)})

(* C4 (as claimed): a search without category filter and with a limit that cuts
   nothing off returns every stored document whose content holds at least one
   token of the query, with a relevance score above 0 *)
C4_EveryTokenMatchIsFound ==
    (ret.op = "search" /\ ~Truthy(ret.documentType) /\ ret.limit >= Len(documents)) =>
        \A d \in StoredDocs :
            (\E tok \in TokenSet(ret.query) : InContent(tok, d)) =>
                \E r \in Returned : r.document = d /\ FracPositive(r.relevanceScore)

(* C5 (as claimed): when no token of the query occurs in the content of any
   stored document, search returns the empty list *)
C5_NoTokenInContentGivesEmpty ==
    (ret.op = "search" /\ \A d \in StoredDocs : \A tok \in TokenSet(ret.query) : ~InContent(tok, d)) =>
        ("value" \in DOMAIN ret /\ ret.value = <<>>)

(* C5 (amended): when no token of the query occurs in the title or in the
   content of any stored document, search returns the empty list and does not
   throw *)
C5_NoTokenInTitleOrContentGivesEmpty ==
    (ret.op = "search" /\ \A d \in StoredDocs : \A tok \in TokenSet(ret.query) :
                              ~InContent(tok, d) /\ ~InTitle(tok, d)) =>
        ("value" \in DOMAIN ret /\ ret.value = <<>>)

(* a search over a store that holds documents, none of which has a token of the
   query in its title or content, has returned the empty list *)
C5_Witness ==
    /\ ret.op = "search"
    /\ documents # <<>>
    /\ ~Truthy(ret.documentType) /\ ret.limit > 0
    /\ \A d \in StoredDocs : \A tok \in TokenSet(ret.query) : ~InContent(tok, d) /\ ~InTitle(tok, d)
    /\ ret.value = <<>>

(* C6: search returns at most limit results, in non-increasing relevance order
   with equal scores in the insertion order of the store, and with a category
   filter given every result has that category *)
C6_SearchLimitOrderFilter ==
    ret.op = "search" =>
        /\ Len(ret.value) <= ret.limit
        /\ \A i, j \in 1..Len(ret.value) :
              i < j =>
                /\ FracLeq(ret.value[j].relevanceScore, ret.value[i].relevanceScore)
                /\ FracEq(ret.value[i].relevanceScore, ret.value[j].relevanceScore) =>
                      MapIndex(documents, ret.value[i].document.id)
                          < MapIndex(documents, ret.value[j].document.id)
        /\ Truthy(ret.documentType) =>
              \A r \in Returned : r.document.documentType = ret.documentType
        /\ \A r \in Returned : r.document \in StoredDocs

(* a filtered search with limit 1 over a store in which two documents match the
   query and the category has returned the one inserted first *)
C6_Witness ==
    /\ ret.op = "search"
    /\ Truthy(ret.documentType)
    /\ ret.limit = 1
    /\ Len(documents) = 2
    /\ \A d \in StoredDocs : SearchMatches(d, ret.query) /\ d.documentType = ret.documentType
    /\ Len(ret.value) = 1
    /\ ret.value[1].document = documents[1].val

(* C7 (as claimed): the relevance score of every returned reference is the
   number of query tokens that occur in the document's content divided by the
   number of query tokens *)
C7_ScoreIsTokenFraction ==
    ret.op = "search" =>
        \A r \in Returned :
            FracEq(r.relevanceScore,
                   Frac(MatchedTokens(ret.query, r.document), Len(Tokens(ret.query))))

-----------------------------------------------------------------------------
(* Properties of the Document Store *)

(* C10 (as claimed): findAll never returns two documents with the same id, and
   findById(k) returns null or a document whose id is k *)
C10_IdsUnique ==
    /\ \A i, j \in 1..Len(findAll(documents)) :
          i # j => findAll(documents)[i].id # findAll(documents)[j].id
    /\ \A k \in Ids : findById(documents, k) # Null => findById(documents, k).id = k

-----------------------------------------------------------------------------
(* The services applied to given retrieved documents *)

MaxRetrieved == 2

ScoreTexts ==
    { [title |-> <<"T">>, content |-> <<"A", " ", "b">>],
      [title |-> <<"b">>, content |-> <<"c">>],
      [title |-> <<"x">>, content |-> <<"t", ".", "T">>] }

RetrievedDocs ==
    { [id |-> 1, title |-> t.title, content |-> t.content, source |-> SamplePath,
       documentType |-> "CIVIL_CODE", tags |-> <<"civil_code">>] : t \in ScoreTexts }

RetrievedLists == UNION { [1..n -> RetrievedDocs] : n \in 0..MaxRetrieved }

SampleAiText == <<"1", ".", " ", "I", "\n", "a", "b">>

otherThanCalc == <<documents, ret, queries, qResponses, writings, wResponses, nextId, result>>

ApplyProcessQuery(docs, q) ==
    /\ calc' = [op |-> "processQuery", documents |-> docs, query |-> q,
                value |-> processQueryWith(docs, [question |-> q], 0,
                                           AiText(SampleAiText), AiText(SampleAiText)).value]
    /\ UNCHANGED otherThanCalc

ApplyGenerateDocument(docs, q) ==
    /\ calc' = [op |-> "generateDocument", documents |-> docs, query |-> q,
                value |-> generateDocumentWith(docs, [title |-> <<"T">>, prompt |-> q], 0,
                                               AiText(SampleAiText)).value]
    /\ UNCHANGED otherThanCalc

ApplyReviewDocument(q) ==
    /\ calc' = [op |-> "reviewDocument", documents |-> <<>>, query |-> q,
                value |-> reviewDocument(1, q, 0)]
    /\ UNCHANGED otherThanCalc

ScoreNext ==
    \/ \E docs \in RetrievedLists, q \in Queries : ApplyProcessQuery(docs, q)
    \/ \E docs \in RetrievedLists, q \in Queries : ApplyGenerateDocument(docs, q)
    \/ \E q \in Queries : ApplyReviewDocument(q)

SpecScore == Init /\ [][ScoreNext]_vars

(* C8: the confidence of every response the services build lies in [0.3, 1.0],
   and is exactly 0.3 when retrieval returned no documents *)
C8_ConfidenceRange ==
    calc.op \in {"processQuery", "generateDocument", "reviewDocument"} =>
        /\ FracLeq(Frac(3, 10), calc.value.confidence)
        /\ FracLeq(calc.value.confidence, Frac(1, 1))
        /\ (calc.op # "reviewDocument" /\ calc.documents = <<>>) =>
              calc.value.confidence = Frac(3, 10)

(* a response was built from two retrieved documents of which one holds half of
   the query's tokens and the other none: its confidence is strictly between
   0.3 and 1.0 *)
C8_Witness ==
    /\ calc.op = "processQuery"
    /\ Len(calc.documents) = 2
    /\ FracEq(calc.value.sources[1].relevanceScore, Frac(1, 2))
    /\ FracEq(calc.value.sources[2].relevanceScore, Frac(0, 1))
    /\ FracEq(calc.value.confidence, Frac(19, 40))

(* the sum of the relevance scores a response lists *)
RECURSIVE SumListed(_)
SumListed(sources) ==
    IF sources = <<>> THEN Frac(0, 1)
    ELSE FracAdd(Head(sources).relevanceScore, SumListed(Tail(sources)))

(* C24: a response with at least one source has confidence
   min(0.3 + 0.7 * m, 1.0), m being the mean of the relevance scores its own
   sources list *)
C24_ConfidenceFromListedScores ==
    (calc.op \in {"processQuery", "generateDocument"} /\ Len(calc.value.sources) >= 1) =>
        LET m == FracMul(SumListed(calc.value.sources), Frac(1, Len(calc.value.sources)))
        IN  /\ FracEq(calc.value.confidence,
                      FracMin(FracAdd(Frac(3, 10), FracMul(Frac(7, 10), m)), Frac(1, 1)))
            /\ Len(calc.value.sources) = Len(calc.documents)

(* a document was generated from two precedents, one holding both tokens of
   the prompt and one holding neither: the scores listed are 1 and 0 and the
   confidence is 0.3 + 0.7 * 1/2 *)
C24_Witness ==
    /\ calc.op = "generateDocument"
    /\ Len(calc.value.sources) = 2
    /\ FracEq(calc.value.sources[1].relevanceScore, Frac(1, 1))
    /\ FracEq(calc.value.sources[2].relevanceScore, Frac(0, 1))
    /\ FracEq(calc.value.confidence, Frac(13, 20))

-----------------------------------------------------------------------------
(* The use cases.  A use case is written against the interfaces of its service
   and its repository; fault names the collaborator call that rejects, as the
   use cases' tests make them reject ("none": every collaborator behaves as the
   implementations in this repository do) *)

MaxUuid == 4

MaxBatch == 2

NullAccess(field) == <<"Cannot read properties of null (reading '", field, "')">>

ServiceFault == <<"Service unavailable">>

SaveFault == <<"Repository error">>

SaveResponseFault == <<"Repository error">>

(* the catch clause of ProcessLegalQueryUseCase.execute, rethrowing *)
ProcessLegalQueryReplyRethrows(out) ==
    IF out.ok
    THEN [raised |-> FALSE, response |-> out.value, success |-> TRUE,
          message |-> <<"Legal query processed successfully">>]
    ELSE [raised |-> TRUE, message |-> out.message]

(* what ProcessLegalQueryUseCase.execute returns when its try block ends with out *)
ProcessLegalQueryReply(out) ==
    IF out.ok
    THEN [raised |-> FALSE, response |-> out.value, success |-> TRUE,
          message |-> <<"Legal query processed successfully">>]
    ELSE [raised |-> FALSE, response |-> Null, success |-> FALSE,
          message |-> <<"Failed to process legal query: ">> \o out.message]

(* the try block of ProcessLegalQueryUseCase.execute: how it ends and what it
   leaves in the stores *)
ProcessLegalQueryTry(request, fault, aiAnswer, aiReasoning) ==
    IF request = Null
    THEN [out |-> Throws(NullAccess("question")), nextId |-> nextId,
          queries |-> queries, qResponses |-> qResponses]
    ELSE LET legalQuery ==
                 [id |-> nextId + 1,
                  question |-> request.question,
                  queryType |-> IF Truthy(request.queryType) THEN request.queryType
                                ELSE "LEGAL_QUESTION"]
             queryResponse ==
                 IF fault = "service" THEN Throws(ServiceFault)
                 ELSE processQuery(request, nextId + 1, aiAnswer, aiReasoning)
         IN  IF ~queryResponse.ok
             THEN [out |-> queryResponse, nextId |-> nextId + 1,
                   queries |-> queries, qResponses |-> qResponses]
             ELSE IF fault = "save"
             THEN [out |-> Throws(SaveFault), nextId |-> nextId + 3,
                   queries |-> queries, qResponses |-> qResponses]
             ELSE IF fault = "saveResponse"
             THEN [out |-> Throws(SaveResponseFault), nextId |-> nextId + 3,
                   queries |-> MapSet(queries, legalQuery.id, legalQuery),
                   qResponses |-> qResponses]
             ELSE [out |-> queryResponse, nextId |-> nextId + 3,
                   queries |-> MapSet(queries, legalQuery.id, legalQuery),
                   qResponses |-> MapSet(qResponses, queryResponse.value.id, queryResponse.value)]

(* what GenerateLegalDocumentUseCase.execute returns when its try block ends with out *)
GenerateLegalDocumentReply(out) ==
    IF out.ok
    THEN [raised |-> FALSE, response |-> out.value, success |-> TRUE,
          message |-> <<"Legal document generated successfully">>]
    ELSE [raised |-> FALSE, response |-> Null, success |-> FALSE,
          message |-> <<"Failed to generate legal document: ">> \o out.message]

(* the try block of GenerateLegalDocumentUseCase.execute *)
GenerateLegalDocumentTry(request, fault, ai) ==
    IF request = Null
    THEN [out |-> Throws(NullAccess("title")), nextId |-> nextId,
          writings |-> writings, wResponses |-> wResponses]
    ELSE LET writingResponse ==
                 IF fault = "service" THEN Throws(ServiceFault)
                 ELSE generateDocument(request, nextId, ai)
             legalWriting ==
                 [id |-> nextId + 3,
                  title |-> request.title,
                  prompt |-> request.prompt,
                  documentType |-> request.documentType]
         IN  IF ~writingResponse.ok
             THEN [out |-> writingResponse, nextId |-> nextId,
                   writings |-> writings, wResponses |-> wResponses]
             ELSE IF fault = "save"
             THEN [out |-> Throws(SaveFault), nextId |-> nextId + 3,
                   writings |-> writings, wResponses |-> wResponses]
             ELSE IF fault = "saveResponse"
             THEN [out |-> Throws(SaveResponseFault), nextId |-> nextId + 3,
                   writings |-> MapSet(writings, legalWriting.id, legalWriting),
                   wResponses |-> wResponses]
             ELSE [out |-> writingResponse, nextId |-> nextId + 3,
                   writings |-> MapSet(writings, legalWriting.id, legalWriting),
                   wResponses |-> MapSet(wResponses, writingResponse.value.id, writingResponse.value)]

(* IndexDocumentUseCase.execute reporting success whatever its try block did *)
IndexDocumentReplyAlwaysSuccess(out) ==
    [raised |-> FALSE, document |-> IF out.ok THEN out.value ELSE Null, success |-> TRUE,
     message |-> IF out.ok THEN <<"Document \"">> \o out.value.title \o <<"\" indexed successfully">>
                 ELSE out.message]

(* what IndexDocumentUseCase.execute returns when its try block ends with out *)
IndexDocumentReply(out) ==
    IF out.ok
    THEN [raised |-> FALSE, document |-> out.value, success |-> TRUE,
          message |-> <<"Document \"">> \o out.value.title \o <<"\" indexed successfully">>]
    ELSE [raised |-> FALSE, document |-> Null, success |-> FALSE,
          message |-> <<"Failed to index document: ">> \o out.message]

(* IndexDocumentUseCase.execute on the store docs with uuid counter nid: its
   reply, the store and the counter it leaves, and the calls it made on the
   indexing service (indexed) and on the repository (saved) *)
IndexDocumentExecute(docs, nid, request, fault) ==
    IF request = Null
    THEN [reply |-> IndexDocumentReply(Throws(NullAccess("filePath"))),
          documents |-> docs, nextId |-> nid, indexed |-> <<>>, saved |-> <<>>]
    ELSE LET indexedDocument == indexDocument(request.filePath, request.documentType, nid)
             call == <<[filePath |-> request.filePath, documentType |-> request.documentType]>>
         IN  IF ~indexedDocument.ok
             THEN [reply |-> IndexDocumentReply(indexedDocument),
                   documents |-> docs, nextId |-> nid, indexed |-> call, saved |-> <<>>]
             ELSE IF fault = "save"
             THEN [reply |-> IndexDocumentReply(Throws(SaveFault)),
                   documents |-> docs, nextId |-> nid + 1, indexed |-> call,
                   saved |-> <<indexedDocument.value>>]
             ELSE [reply |-> IndexDocumentReply(indexedDocument),
                   documents |-> MapSet(docs, indexedDocument.value.id, indexedDocument.value),
                   nextId |-> nid + 1, indexed |-> call,
                   saved |-> <<indexedDocument.value>>]

(* the loop of executeBatch giving up at the first failed item *)
RECURSIVE ExecuteBatchStopsAtFailure(_, _, _, _)
ExecuteBatchStopsAtFailure(acc, requests, faults, i) ==
    IF i > Len(requests)
    THEN acc
    ELSE LET item == IndexDocumentExecute(acc.documents, acc.nextId, requests[i], faults[i])
             next == [results |-> Append(acc.results, item.reply),
                      documents |-> item.documents,
                      nextId |-> item.nextId,
                      indexed |-> acc.indexed \o item.indexed,
                      saved |-> acc.saved \o item.saved]
         IN  IF item.reply.success
             THEN ExecuteBatchStopsAtFailure(next, requests, faults, i + 1)
             ELSE next

(* the loop of IndexDocumentUseCase.executeBatch from its i-th request on, acc
   holding what the items before it left *)
RECURSIVE ExecuteBatchLoop(_, _, _, _)
ExecuteBatchLoop(acc, requests, faults, i) ==
    IF i > Len(requests)
    THEN acc
    ELSE LET item == IndexDocumentExecute(acc.documents, acc.nextId, requests[i], faults[i])
         IN  ExecuteBatchLoop([results |-> Append(acc.results, item.reply),
                               documents |-> item.documents,
                               nextId |-> item.nextId,
                               indexed |-> acc.indexed \o item.indexed,
                               saved |-> acc.saved \o item.saved],
                              requests, faults, i + 1)

-----------------------------------------------------------------------------
(* Inputs of the use cases *)

SampleQuestion == <<"a", " ", "b">>

QueryRequests ==
    {Null} \cup [question : {SampleQuestion}, queryType : {Undefined, "CASE_ANALYSIS"}]

WritingRequests ==
    {Null} \cup [title : { <<"T">> }, prompt : {SampleQuestion}, documentType : {"COMPLAINT"}]

IndexRequests ==
    {Null} \cup [filePath : {GoodPath, BadPath, MissingPath}, documentType : {"CIVIL_CODE"}]

AiOutcomes == {AiText(SampleAiText), AiError(<<"No AI provider configured">>)}

UseCaseFaults == {"none", "service", "save", "saveResponse"}

IndexFaults == {"none", "save"}

BatchItems ==
    { <<[filePath |-> GoodPath, documentType |-> "CIVIL_CODE"], "none">>,
      <<[filePath |-> BadPath, documentType |-> "CIVIL_CODE"], "none">>,
      <<[filePath |-> GoodPath, documentType |-> "CIVIL_CODE"], "save">>,
      <<Null, "none">> }

BatchInputs ==
    UNION { [1..n -> BatchItems] : n \in 0..MaxBatch }

-----------------------------------------------------------------------------
(* Calls of the use cases *)

ProcessLegalQuery(request, fault, aiAnswer, aiReasoning) ==
    /\ nextId + 3 <= MaxUuid
    /\ LET try == ProcessLegalQueryTry(request, fault, aiAnswer, aiReasoning)
       IN  /\ queries' = try.queries
           /\ qResponses' = try.qResponses
           /\ nextId' = try.nextId
           /\ result' = [op |-> "processLegalQuery", request |-> request, fault |-> fault,
                         ai |-> <<aiAnswer, aiReasoning>>,
                         reply |-> ProcessLegalQueryReply(try.out)]
    /\ UNCHANGED <<documents, ret, writings, wResponses, calc>>

GenerateLegalDocument(request, fault, ai) ==
    /\ nextId + 3 <= MaxUuid
    /\ LET try == GenerateLegalDocumentTry(request, fault, ai)
       IN  /\ writings' = try.writings
           /\ wResponses' = try.wResponses
           /\ nextId' = try.nextId
           /\ result' = [op |-> "generateLegalDocument", request |-> request, fault |-> fault,
                         ai |-> <<ai>>,
                         reply |-> GenerateLegalDocumentReply(try.out)]
    /\ UNCHANGED <<documents, ret, queries, qResponses, calc>>

IndexDocument(request, fault) ==
    /\ nextId + 1 <= MaxUuid
    /\ LET done == IndexDocumentExecute(documents, nextId, request, fault)
       IN  /\ documents' = done.documents
           /\ nextId' = done.nextId
           /\ result' = [op |-> "indexDocument", request |-> request, fault |-> fault,
                         reply |-> done.reply, indexed |-> done.indexed, saved |-> done.saved]
    /\ UNCHANGED <<ret, queries, qResponses, writings, wResponses, calc>>

ExecuteBatch(inputs) ==
    /\ nextId + Len(inputs) <= MaxUuid
    /\ LET requests == [i \in 1..Len(inputs) |-> inputs[i][1]]
           faults   == [i \in 1..Len(inputs) |-> inputs[i][2]]
           done     == ExecuteBatchLoop([results |-> <<>>, documents |-> documents,
                                        nextId |-> nextId, indexed |-> <<>>, saved |-> <<>>],
                                       requests, faults, 1)
       IN  /\ documents' = done.documents
           /\ nextId' = done.nextId
           /\ result' = [op |-> "executeBatch", requests |-> requests, faults |-> faults,
                         before |-> documents,
                         results |-> done.results, indexed |-> done.indexed, saved |-> done.saved]
    /\ UNCHANGED <<ret, queries, qResponses, writings, wResponses, calc>>

Next ==
    \/ \E r \in QueryRequests, f \in UseCaseFaults, a1 \in AiOutcomes, a2 \in AiOutcomes :
          ProcessLegalQuery(r, f, a1, a2)
    \/ \E r \in WritingRequests, f \in UseCaseFaults, a \in AiOutcomes :
          GenerateLegalDocument(r, f, a)
    \/ \E r \in IndexRequests, f \in IndexFaults : IndexDocument(r, f)
    \/ \E inputs \in BatchInputs : ExecuteBatch(inputs)

Spec == Init /\ [][Next]_vars

-----------------------------------------------------------------------------
(* LegalQueryRepository and LegalWritingRepository: the responses of a request *)

findResponsesByQueryId(responses, queryId) ==
    SelectSeq(MapValues(responses), LAMBDA response : response.queryId = queryId)

findResponsesByWritingId(responses, writingId) ==
    SelectSeq(MapValues(responses), LAMBDA response : response.writingId = writingId)

-----------------------------------------------------------------------------
(* Properties of the use cases *)

SingleCalls == {"processLegalQuery", "generateLegalDocument", "indexDocument"}

FailurePrefix(op) ==
    CASE op = "processLegalQuery"     -> <<"Failed to process legal query: ">>
      [] op = "generateLegalDocument" -> <<"Failed to generate legal document: ">>
      [] op = "indexDocument"         -> <<"Failed to index document: ">>

(* the failure text of the first step of the call recorded in r that fails,
   <<>> when no step fails *)
FirstFailure(r) ==
    IF r.request = Null
    THEN CASE r.op = "processLegalQuery"     -> NullAccess("question")
           [] r.op = "generateLegalDocument" -> NullAccess("title")
           [] r.op = "indexDocument"         -> NullAccess("filePath")
    ELSE IF r.op # "indexDocument" /\ r.fault = "service" THEN ServiceFault
    ELSE IF r.op = "generateLegalDocument" /\ ~r.ai[1].ok
         THEN <<"Failed to generate legal document: ", "Failed to generate legal content: ">>
                  \o r.ai[1].message
    ELSE IF r.op = "indexDocument" /\ r.request.filePath = MissingPath
         THEN <<"Failed to index document: ", "File not found: ">>
                  \o PathJoin(AssetsPath, MissingPath)
    ELSE IF r.op = "indexDocument" /\ r.request.filePath = BadPath
         THEN <<"Failed to index document: ", "Invalid PDF structure">>
    ELSE IF r.fault = "save" THEN SaveFault
    ELSE IF r.fault = "saveResponse" THEN SaveResponseFault
    ELSE <<>>

(* C1: execute of the three use cases never raises: when the request is null
   or a step of the service or of the repository fails the result has
   success=false, a null response/document and a message that carries the
   failure text; when no step fails it has success=true and the response or
   document that was produced and stored *)
C1_ExecuteNeverRaises ==
    result.op \in SingleCalls =>
        /\ ~result.reply.raised
        /\ IF FirstFailure(result) # <<>>
           THEN /\ result.reply.success = FALSE
                /\ IF result.op = "indexDocument"
                   THEN result.reply.document = Null
                   ELSE result.reply.response = Null
                /\ result.reply.message = FailurePrefix(result.op) \o FirstFailure(result)
           ELSE /\ result.reply.success = TRUE
                /\ CASE result.op = "processLegalQuery" ->
                          /\ result.reply.response # Null
                          /\ MapGet(qResponses, result.reply.response.id) = result.reply.response
                     [] result.op = "generateLegalDocument" ->
                          /\ result.reply.response # Null
                          /\ MapGet(wResponses, result.reply.response.id) = result.reply.response
                     [] result.op = "indexDocument" ->
                          /\ result.reply.document # Null
                          /\ MapGet(documents, result.reply.document.id) = result.reply.document

C1_Witness ==
    /\ result.op = "processLegalQuery"
    /\ result.request # Null
    /\ result.fault = "saveResponse"
    /\ result.reply.success = FALSE
    /\ result.reply.message = <<"Failed to process legal query: ">> \o SaveResponseFault
    /\ queries # <<>>

AiFails(r) == \E i \in 1..Len(r.ai) : ~r.ai[i].ok

(* C2: a failure of generateContent during a request whose other steps all
   work aborts the request: no response is produced or stored and the use case
   returns success=false *)
C2_AiFailureAborts ==
    [][ (/\ result'.op \in {"processLegalQuery", "generateLegalDocument"}
         /\ result'.request # Null
         /\ result'.fault = "none"
         /\ AiFails(result'))
        => /\ result'.reply.success = FALSE
           /\ result'.reply.response = Null
           /\ qResponses' = qResponses
           /\ wResponses' = wResponses ]_vars

ApologyFor(message) ==
    <<"I apologize, but I encountered an error while processing your legal question: ">>
        \o message
        \o <<". Please try rephrasing your question or contact support.">>

(* C2, amended: a failure of generateContent while generateDocument builds the
   content aborts the request (nothing stored, success=false, the message
   carries the failure text); a failure while processQuery builds the answer or
   the reasoning does not: the answer is an apology carrying the failure text,
   the reasoning a fixed text, and the response is stored and returned with
   success=true *)
C2_AiFailureAbortsWritingOnly ==
    [][ (/\ result'.op \in {"processLegalQuery", "generateLegalDocument"}
         /\ result'.request # Null
         /\ result'.fault = "none"
         /\ AiFails(result'))
        => IF result'.op = "generateLegalDocument"
           THEN /\ result'.reply.success = FALSE
                /\ result'.reply.response = Null
                /\ result'.reply.message =
                       <<"Failed to generate legal document: ",
                         "Failed to generate legal document: ",
                         "Failed to generate legal content: ">> \o result'.ai[1].message
                /\ wResponses' = wResponses
                /\ writings' = writings
           ELSE /\ result'.reply.success = TRUE
                /\ result'.reply.response # Null
                /\ ~result'.ai[1].ok =>
                      result'.reply.response.answer = ApologyFor(result'.ai[1].message)
                /\ ~result'.ai[2].ok =>
                      result'.reply.response.reasoning = <<"Unable to generate reasoning at this time.">>
                /\ ~MapHas(qResponses, result'.reply.response.id)
                /\ MapGet(qResponses', result'.reply.response.id) = result'.reply.response ]_vars

C2_Witness ==
    /\ result.op = "processLegalQuery"
    /\ result.request # Null
    /\ result.fault = "none"
    /\ ~result.ai[1].ok
    /\ result.reply.success = TRUE
    /\ result.reply.response.answer = ApologyFor(<<"No AI provider configured">>)
    /\ MapHas(qResponses, result.reply.response.id)

(* C3: after a successful execute of the query or of the writing use case the
   responses found under the id of a stored request are exactly the one
   response the call created *)
C3_OneResponsePerRequest ==
    /\ (result.op = "processLegalQuery" /\ result.reply.success) =>
          \E i \in 1..Len(queries) :
              findResponsesByQueryId(qResponses, queries[i].val.id) = <<result.reply.response>>
    /\ (result.op = "generateLegalDocument" /\ result.reply.success) =>
          \E i \in 1..Len(writings) :
              findResponsesByWritingId(wResponses, writings[i].val.id) = <<result.reply.response>>

(* the outcome of the i-th request of a batch, run on its own *)
OutcomeAlone(docs, request, fault) ==
    IndexDocumentExecute(docs, 0, request, fault).reply

SameOutcome(a, b) ==
    /\ a.success = b.success
    /\ a.message = b.message
    /\ IF a.success
       THEN /\ b.document # Null
            /\ a.document.title = b.document.title
            /\ a.document.content = b.document.content
       ELSE a.document = Null /\ b.document = Null

(* C9: executeBatch attempts every item whatever happened to the items before
   it and returns one outcome per request, in order; the empty batch returns
   the empty list and calls neither the indexing service nor the store *)
C9_BatchItemsIndependent ==
    result.op = "executeBatch" =>
        /\ Len(result.results) = Len(result.requests)
        /\ \A i \in 1..Len(result.requests) :
               /\ ~result.results[i].raised
               /\ SameOutcome(result.results[i],
                              OutcomeAlone(<<>>, result.requests[i], result.faults[i]))
        /\ Len(result.indexed) = Cardinality({i \in 1..Len(result.requests) : result.requests[i] # Null})
        /\ result.requests = <<>> =>
               /\ result.results = <<>>
               /\ result.indexed = <<>>
               /\ result.saved = <<>>
               /\ documents = result.before

C9_Witness ==
    /\ result.op = "executeBatch"
    /\ Len(result.requests) = 2
    /\ result.results[1].success = FALSE
    /\ result.results[2].success = TRUE
    /\ MapHas(documents, result.results[2].document.id)

-----------------------------------------------------------------------------
(* Ingestion with any category string: index requests as POST /documents/index
   hands them to the use case, and a direct save *)

IngestRequests ==
    [filePath : {GoodPath, MissingPath}, documentType : {"CIVIL_CODE", "INVALID_TYPE"}]

(* a record as the repository's "invalid document data" test saves it *)
InvalidDocument ==
    [id |-> 0, title |-> <<"T">>, content |-> <<"c">>, source |-> SamplePath,
     documentType |-> "INVALID_TYPE", tags |-> <<"invalid_type">>]

IngestNext ==
    \/ \E r \in IngestRequests : IndexDocument(r, "none")
    \/ Save(InvalidDocument)
    \/ \E id \in 0..MaxUuid : Delete(id)

SpecIngest == Init /\ [][IngestNext]_vars

(* C11: every document the store holds has a category of the enumeration *)
C11_StoredCategoryInEnumeration ==
    \A i \in 1..Len(documents) : documents[i].val.documentType \in DocumentType

SameSource(d, e) == d.source = e.source /\ d.documentType = e.documentType

(* C12: a successful ingestion adds one document under an id the store did not
   hold, whose tags are the single lower-cased category string; a stored
   document ingested from the same source with the same category has another
   id and the same tags *)
C12_SameSourceTwice ==
    [][ (/\ result'.op = "indexDocument"
         /\ nextId' # nextId
         /\ result'.reply.success)
        => LET new == result'.reply.document
           IN  /\ new.tags = <<LowerCaseType(result'.request.documentType)>>
               /\ ~MapHas(documents, new.id)
               /\ Len(documents') = Len(documents) + 1
               /\ MapGet(documents', new.id) = new
               /\ \A i \in 1..Len(documents) :
                      /\ MapGet(documents', documents[i].key) = documents[i].val
                      /\ SameSource(documents[i].val, new) =>
                            /\ documents[i].val.id # new.id
                            /\ documents[i].val.tags = new.tags ]_vars

C12_Witness ==
    /\ result.op = "indexDocument"
    /\ result.reply.success
    /\ Len(documents) = 2
    /\ SameSource(documents[1].val, documents[2].val)
    /\ documents[1].val.source = GoodPath
    /\ documents[1].val.id # documents[2].val.id
    /\ documents[1].val.tags = <<"civil_code">>
    /\ documents[2].val.tags = <<"civil_code">>
    /\ documents[2].val = result.reply.document

Carries(message, text) == \E i \in 1..Len(message) : message[i] = text

(* C15: when the source path does not resolve under the assets root, or the
   text extraction fails, execute returns success=false with a message that
   carries the cause, never calls the repository's save, and leaves the store
   as it was *)
C15_FailedIngestionLeavesStore ==
    [][ (/\ result'.op = "indexDocument"
         /\ result'.request # Null
         /\ result'.request.filePath \in {MissingPath, BadPath})
        => /\ ~result'.reply.raised
           /\ result'.reply.success = FALSE
           /\ result'.reply.document = Null
           /\ IF result'.request.filePath = MissingPath
              THEN Carries(result'.reply.message, "File not found: ")
              ELSE Carries(result'.reply.message, "Invalid PDF structure")
           /\ result'.saved = <<>>
           /\ documents' = documents ]_vars

C15_Witness ==
    /\ result.op = "indexDocument"
    /\ result.request # Null
    /\ result.request.filePath = MissingPath
    /\ result.reply.success = FALSE
    /\ Carries(result.reply.message, "File not found: ")
    /\ result.saved = <<>>
    /\ documents # <<>>

-----------------------------------------------------------------------------
(* The section parser applied to generated text: numbered header lines, each
   followed by some content lines *)

MaxSections == 2

MaxContentLines == 2

NumberedHeader(i) == <<ToString(i), ".", " ", "a">>

ContentLines == { <<"a", " ", "b">>, <<"A", "B">>, <<" ">> }

Bodies == UNION { [1..k -> ContentLines] : k \in 0..MaxContentLines }

RECURSIVE DraftLines(_, _)
DraftLines(headers, bodies) ==
    IF headers = <<>> THEN <<>>
    ELSE <<Head(headers)>> \o Head(bodies) \o DraftLines(Tail(headers), Tail(bodies))

(* the parser keeps nothing between calls: a run parses one text *)
ApplyParseSections(bodies) ==
    /\ calc = NoCall
    /\ LET headers == [i \in 1..Len(bodies) |-> NumberedHeader(i)]
           text    == Join(DraftLines(headers, bodies), <<"\n">>)
       IN  calc' = [op |-> "parseSections", headers |-> headers, bodies |-> bodies,
                    text |-> text,
                    value |-> generateLegalContent(<<"a">>, <<>>, AiText(text)).value.sections]
    /\ UNCHANGED otherThanCalc

ParseNext ==
    \E n \in {k \in 0..MaxSections : calc = NoCall} : \E bodies \in [1..n -> Bodies] : ApplyParseSections(bodies)

SpecParse == Init /\ [][ParseNext]_vars

(* C13: for n numbered header lines each followed by at least one content
   line that is not itself a header, the parser returns n sections, in header
   order, titled by the header lines and ordered 1..n *)
C13_NumberedSections ==
    (/\ calc.op = "parseSections"
     /\ \A i \in 1..Len(calc.bodies) : calc.bodies[i] # <<>>)
    => /\ Len(calc.value) = Len(calc.headers)
       /\ \A i \in 1..Len(calc.headers) :
              /\ calc.value[i].title = calc.headers[i]
              /\ calc.value[i].order = i
              /\ calc.value[i].content = Trim(Join(calc.bodies[i], <<"\n">>))

C13_Witness ==
    /\ calc.op = "parseSections"
    /\ Len(calc.headers) = 2
    /\ Len(calc.bodies[1]) = 2
    /\ calc.bodies[2] = << <<"A", "B">> >>
    /\ Len(calc.value) = 2
    /\ calc.value[2].title = <<"2", ".", " ", "a">>
    /\ calc.value[2].order = 2

-----------------------------------------------------------------------------
(* Validation of a document: LangChainService.validateLegalDocument and
   LegalWritingService.validateLegalDocument.  Of the report of the former the
   model carries isValid *)

(* the least index from which t occurs in s, 0 when it does not occur *)
IndexOf(s, t) ==
    LET at == {i \in 1..(Len(s) - Len(t) + 1) : SubSeq(s, i, i + Len(t) - 1) = t}
    IN  IF at = {} THEN 0 ELSE CHOOSE i \in at : \A j \in at : i <= j

ValidityLabel == <<"v", "a", "l", "i", "d", "i", "t", "y", ":">>

(* analysis.match(/VALIDITY:\s*(.+)/i)?.[1]: after the first label and the
   white space that follows it, line ends included, the rest of the line;
   Null when there is no label, an empty capture standing for one of blanks *)
ValidityMatch(analysis) ==
    LET p == IndexOf(ToLowerCase(analysis), ValidityLabel)
        after == p + Len(ValidityLabel)
        text == {j \in after..Len(analysis) : analysis[j] \notin WhiteSpace}
    IN  IF p = 0 THEN Null
        ELSE IF text = {} THEN [capture |-> <<>>]
        ELSE LET q == CHOOSE j \in text : \A k \in text : j <= k
                 ends == {j \in q..Len(analysis) : analysis[j] = "\n"} \cup {Len(analysis) + 1}
                 eol == CHOOSE j \in ends : \A k \in ends : j <= k
             IN  [capture |-> SubSeq(analysis, q, eol - 1)]

(* the validity test as an exact match of the captured text *)
IsValidExactMatch(analysis) ==
    ValidityMatch(analysis) # Null /\ ToLowerCase(ValidityMatch(analysis).capture) = <<"v", "a", "l", "i", "d">>

(* isValid of LangChainService.validateLegalDocument *)
IsValidLangChain(analysis) ==
    IF ValidityMatch(analysis) = Null THEN FALSE
    ELSE Includes(ToLowerCase(ValidityMatch(analysis).capture), <<"v", "a", "l", "i", "d">>)

validateLegalDocumentLangChain(analysis) == [isValid |-> IsValidLangChain(analysis)]

MaxIssues == 5

MaxSuggestions == 5

extractIssues(analysis) ==
    LET hit(line) == \/ Includes(ToLowerCase(line), <<"i", "s", "s", "u", "e">>)
                     \/ Includes(ToLowerCase(line), <<"p", "r", "o", "b", "l", "e", "m">>)
                     \/ Includes(ToLowerCase(line), <<"e", "r", "r", "o", "r">>)
        kept == SelectSeq(SplitLines(analysis), hit)
    IN  Slice0([i \in 1..Len(kept) |-> Trim(kept[i])], MaxIssues)

extractSuggestions(analysis) ==
    LET hit(line) == \/ Includes(ToLowerCase(line), <<"s", "u", "g", "g", "e", "s", "t">>)
                     \/ Includes(ToLowerCase(line), <<"r", "e", "c", "o", "m", "m", "e", "n", "d">>)
                     \/ Includes(ToLowerCase(line), <<"i", "m", "p", "r", "o", "v", "e">>)
        kept == SelectSeq(SplitLines(analysis), hit)
    IN  Slice0([i \in 1..Len(kept) |-> Trim(kept[i])], MaxSuggestions)

(* LegalWritingService.validateLegalDocument; ai is how generateContent ends *)
validateLegalDocument(content, ai) ==
    IF ai.ok
    THEN LET analysis == ai.text
             issues == extractIssues(analysis)
         IN  [isValid |-> ~Includes(ToLowerCase(analysis), <<"i", "n", "v", "a", "l", "i", "d">>) /\ Len(issues) = 0,
              issues |-> issues,
              suggestions |-> extractSuggestions(analysis)]
    ELSE [isValid |-> FALSE,
          issues |-> << <<"Unable to validate document due to processing error">> >>,
          suggestions |-> << <<"Please review the document manually">> >>]

(* model outputs: a first line, with or without the VALIDITY: label, then the
   other blocks of the report *)
ValidityLines ==
    { <<>>,
      <<"V", "A", "L", "I", "D", "I", "T", "Y", ":", " ", "V", "a", "l", "i", "d">>,
      <<"V", "A", "L", "I", "D", "I", "T", "Y", ":", " ", "I", "n", "v", "a", "l", "i", "d">>,
      <<"V", "a", "l", "i", "d", "i", "t", "y", ":", " ", "N", "e", "e", "d", "s", " ", "R", "e", "v", "i", "e", "w">>,
      <<"V", "A", "L", "I", "D", "I", "T", "Y", ":">>,
      <<"V", "A", "L", "I", "D", "I", "T", "Y", ":", " ">> }

ReportBlocks ==
    { <<>>,
      <<"\n", "I", "S", "S", "U", "E", "S", ":", "\n", "-", " ", "M", "i", "s", "s", "i", "n", "g", " ", "d", "a", "t", "e", "\n", "S", "U", "G", "G", "E", "S", "T", "I", "O", "N", "S", ":", "\n", "-", " ", "A", "d", "d", " ", "d", "a", "t", "e">>,
      <<"\n", "o", "k">>,
      <<"\n", "v", "a", "l", "i", "d", "\n", "w", "e", " ", "r", "e", "c", "o", "m", "m", "e", "n", "d", " ", "a", " ", "d", "a", "t", "e">> }

ReportEnds ==
    { <<>>,
      <<"\n", "A", "N", "A", "L", "Y", "S", "I", "S", ":", "\n", "I", "n", "c", "o", "m", "p", "l", "e", "t", "e", ".">>,
      <<"\n", "A", " ", "p", "r", "o", "b", "l", "e", "m", " ", "r", "e", "m", "a", "i", "n", "s">> }

ModelOutputs == { h \o m \o e : h \in ValidityLines, m \in ReportBlocks, e \in ReportEnds }

ApplyValidateLangChain(analysis) ==
    /\ calc' = [op |-> "validateLangChain", ai |-> AiText(analysis),
                value |-> validateLegalDocumentLangChain(analysis)]
    /\ UNCHANGED otherThanCalc

ApplyValidate(ai) ==
    /\ calc' = [op |-> "validate", ai |-> ai, value |-> validateLegalDocument(<<"c">>, ai)]
    /\ UNCHANGED otherThanCalc

ValidateNext ==
    \/ \E analysis \in ModelOutputs : ApplyValidateLangChain(analysis)
    \/ \E ai \in { AiText(analysis) : analysis \in ModelOutputs }
                   \cup {AiError(<<"No AI provider configured">>)} : ApplyValidate(ai)

SpecValidate == Init /\ [][ValidateNext]_vars

(* the report "VALIDITY: Invalid / ISSUES: - Missing date / SUGGESTIONS: - Add
   date / ANALYSIS: Incomplete." *)
InvalidReport ==
    <<"V", "A", "L", "I", "D", "I", "T", "Y", ":", " ", "I", "n", "v", "a", "l", "i", "d", "\n",
       "I", "S", "S", "U", "E", "S", ":", "\n",
       "-", " ", "M", "i", "s", "s", "i", "n", "g", " ", "d", "a", "t", "e", "\n",
       "S", "U", "G", "G", "E", "S", "T", "I", "O", "N", "S", ":", "\n",
       "-", " ", "A", "d", "d", " ", "d", "a", "t", "e", "\n",
       "A", "N", "A", "L", "Y", "S", "I", "S", ":", "\n",
       "I", "n", "c", "o", "m", "p", "l", "e", "t", "e", ".">>

(* the text after the label on a line that carries the VALIDITY: label *)
AfterLabel(line) ==
    SubSeq(line, IndexOf(ToLowerCase(line), ValidityLabel) + Len(ValidityLabel), Len(line))

(* the output has a VALIDITY: line whose text contains "valid" *)
HasValidityLineWithValid(output) ==
    \E i \in 1..Len(SplitLines(output)) :
        LET line == SplitLines(output)[i]
        IN  /\ Includes(ToLowerCase(line), ValidityLabel)
            /\ Includes(ToLowerCase(AfterLabel(line)), <<"v", "a", "l", "i", "d">>)

(* C14: both validateLegalDocument functions return isValid = true exactly
   when the model output has a VALIDITY: line whose text contains "valid",
   case-insensitively; so for the report with "VALIDITY: Invalid" they return
   isValid = true *)
C14_ValidWhenValidityLineHasValid ==
    (calc.op \in {"validateLangChain", "validate"} /\ calc.ai.ok) =>
        /\ calc.value.isValid = HasValidityLineWithValid(calc.ai.text)
        /\ calc.ai.text = InvalidReport => calc.value.isValid = TRUE

(* the first text that follows the first VALIDITY: label: the rest of its line
   or, when that is blank, the next line that is not; <<>> when there is none *)
TextAfterFirstLabel(output) ==
    LET lines == SplitLines(output)
        labelled == {i \in 1..Len(lines) : Includes(ToLowerCase(lines[i]), ValidityLabel)}
    IN  IF labelled = {} THEN <<>>
        ELSE LET first == CHOOSE i \in labelled : \A j \in labelled : i <= j
                 following == <<AfterLabel(lines[first])>> \o SubSeq(lines, first + 1, Len(lines))
                 texts == SelectSeq(following, LAMBDA l : Trim(l) # <<>>)
             IN  IF texts = <<>> THEN <<>> ELSE Head(texts)

NamesAnIssue(line) ==
    \/ Includes(ToLowerCase(line), <<"i", "s", "s", "u", "e">>)
    \/ Includes(ToLowerCase(line), <<"p", "r", "o", "b", "l", "e", "m">>)
    \/ Includes(ToLowerCase(line), <<"e", "r", "r", "o", "r">>)

(* C14, amended: LangChainService.validateLegalDocument returns isValid = true
   exactly when the first text after the first VALIDITY: label contains
   "valid", so for the "VALIDITY: Invalid" report it returns true;
   LegalWritingService.validateLegalDocument returns isValid = true exactly
   when generateContent succeeds and its output nowhere contains "invalid" and
   no line of it contains "issue", "problem" or "error", so for that report it
   returns false *)
C14_ValidityRuleOfEachService ==
    /\ calc.op = "validateLangChain" =>
          /\ calc.value.isValid = Includes(ToLowerCase(TextAfterFirstLabel(calc.ai.text)), <<"v", "a", "l", "i", "d">>)
          /\ calc.ai.text = InvalidReport => calc.value.isValid = TRUE
    /\ calc.op = "validate" =>
          /\ calc.value.isValid =
                 (/\ calc.ai.ok
                  /\ ~Includes(ToLowerCase(calc.ai.text), <<"i", "n", "v", "a", "l", "i", "d">>)
                  /\ \A i \in 1..Len(SplitLines(calc.ai.text)) :
                         ~NamesAnIssue(SplitLines(calc.ai.text)[i]))
          /\ (calc.ai.ok /\ calc.ai.text = InvalidReport) => calc.value.isValid = FALSE

C14_Witness ==
    /\ calc.op = "validate"
    /\ calc.ai.ok
    /\ calc.ai.text = InvalidReport
    /\ calc.value.isValid = FALSE
    /\ Len(calc.value.issues) = 1

-----------------------------------------------------------------------------
(* The steps of one processQuery / generateDocument request, in the order of
   their awaits: the retrieval, then the generateContent calls.  calc holds the
   request in flight: its position, what retrieval resolved with, and the calls
   made so far *)

RequestKinds == {"processQuery", "generateDocument"}

InFlight(c) == c.op = "request" /\ c.pc # "done"

StartRequest(kind, text) ==
    /\ ~InFlight(calc)
    /\ calc' = [op |-> "request", kind |-> kind, text |-> text, pc |-> "retrieve",
                retrieved |-> <<>>, events |-> <<>>]
    /\ UNCHANGED otherThanCalc

(* searchRelevantDocuments / searchRelevantPrecedents resolves with docs *)
RetrievalCompletes(docs) ==
    /\ calc.op = "request" /\ calc.pc = "retrieve"
    /\ calc' = [calc EXCEPT !.pc = "generate", !.retrieved = docs,
                            !.events = Append(@, [call |-> "retrieval", docs |-> docs])]
    /\ UNCHANGED otherThanCalc

(* generation beginning without waiting for the retrieval *)
GenerationMayBeginEarly(c) == c.op = "request" /\ c.pc \in {"retrieve", "generate"}

(* the first generateContent call comes after the awaited retrieval *)
GenerationMayBegin(c) == c.op = "request" /\ c.pc = "generate"

(* generateAnswer / generateLegalContent calls generateContent, which ends as ai *)
GenerationBegins(ai) ==
    /\ GenerationMayBegin(calc)
    /\ LET prompt == IF calc.kind = "processQuery"
                     THEN AnswerPrompt(calc.text, calc.retrieved)
                     ELSE getDocumentPrompt(calc.text, ContextText(calc.retrieved, AnswerContextChars))
       IN  calc' = [calc EXCEPT !.pc = IF calc.kind = "processQuery" THEN "reason" ELSE "done",
                                !.events = Append(@, [call |-> "generateContent",
                                                      prompt |-> prompt, ai |-> ai])]
    /\ UNCHANGED otherThanCalc

(* generateReasoning calls generateContent, which ends as ai *)
ReasoningBegins(ai) ==
    /\ calc.op = "request" /\ calc.pc = "reason"
    /\ calc' = [calc EXCEPT !.pc = "done",
                            !.events = Append(@, [call |-> "generateContent",
                                                  prompt |-> ReasoningPrompt(calc.text, calc.retrieved),
                                                  ai |-> ai])]
    /\ UNCHANGED otherThanCalc

OrderNext ==
    \/ \E kind \in RequestKinds : StartRequest(kind, SampleQuestion)
    \/ \E docs \in RetrievedLists : RetrievalCompletes(docs)
    \/ \E ai \in AiOutcomes : GenerationBegins(ai)
    \/ \E ai \in AiOutcomes : ReasoningBegins(ai)

SpecOrder == Init /\ [][OrderNext]_vars

(* the titles and leading characters of exactly the documents docs, in order *)
BuiltFrom(prompt, docs, n) ==
    LET context == Join([i \in 1..Len(docs) |->
                            docs[i].title \o <<":", " ">>
                                \o SubSeq(docs[i].content, 1, Min(n, Len(docs[i].content)))],
                        <<"\n", "\n">>)
    IN  \E i \in 1..Len(prompt) :
            /\ prompt[i] \in {"You are a legal expert specializing in Argentine law. Answer the following legal question based on the provided context. Context: ",
                              " Context from relevant legal sources: ",
                              " Based on the following legal context: "}
            /\ Len(prompt) >= i + Len(context) + 1
            /\ SubSeq(prompt, i + 1, i + Len(context)) = context
            /\ Len(prompt[i + Len(context) + 1]) > 1

(* C16: every call of the text generation within a request comes after the
   retrieval of that request has completed, and its prompt is built from
   exactly the documents the retrieval returned *)
C16_RetrievalBeforeGeneration ==
    calc.op = "request" =>
        \A i \in 1..Len(calc.events) :
            calc.events[i].call = "generateContent" =>
                /\ i > 1
                /\ calc.events[1].call = "retrieval"
                /\ BuiltFrom(calc.events[i].prompt, calc.events[1].docs,
                             IF calc.kind = "processQuery" /\ i = 3
                             THEN ReasoningContextChars ELSE AnswerContextChars)

C16_Witness ==
    /\ calc.op = "request"
    /\ calc.kind = "processQuery"
    /\ calc.pc = "done"
    /\ Len(calc.events) = 3
    /\ Len(calc.events[1].docs) = 2
    /\ calc.events[2].call = "generateContent"
    /\ calc.events[3].call = "generateContent"

-----------------------------------------------------------------------------
(* Concurrent calls on the Document Store.  No method of the repository awaits
   anything, so the body of a call runs to its end before any other call's
   body starts: an interleaving of concurrent calls is a sequence of whole
   calls, in any order *)

ConcurrentNext ==
    \/ \E d \in StoreDocs : Save(d)
    \/ \E id \in Ids, p \in StorePartials, now \in Times : Update(id, p, now)
    \/ \E id \in Ids : Delete(id)
    \/ \E id \in Ids : FindById(id)
    \/ FindAll
    \/ \E q \in { <<"b">>, <<"t">> }, k \in Limits : Search(q, Undefined, k)

SpecConcurrent == Init /\ [][ConcurrentNext]_vars

(* the records other than the one under id are what they were *)
OthersUnchanged(id) ==
    /\ MapKeys(documents') \ {id} = MapKeys(documents) \ {id}
    /\ \A k \in MapKeys(documents) \ {id} : MapGet(documents', k) = MapGet(documents, k)

OneEntryPerKey(m) == \A i, j \in 1..Len(m) : m[i].key = m[j].key => i = j

Complete(record) == DOMAIN record = DocFields \cup {"updatedAt"}

(* C17: a write puts one complete record under its id, replacing what was
   there and touching nothing else, so the record held under an id is that of
   the last write to it; a read changes nothing and returns only records the
   store holds, each as one write left it *)
C17_ReadsSeeWholeRecords ==
    [][ /\ OneEntryPerKey(documents')
        /\ ret'.op = "save" =>
              /\ Complete(ret'.value)
              /\ MapGet(documents', ret'.value.id) = ret'.value
              /\ OthersUnchanged(ret'.value.id)
        /\ (ret'.op = "update" /\ MapHas(documents, ret'.id)) =>
              /\ Complete(ret'.value)
              /\ MapGet(documents', ret'.id) = ret'.value
              /\ OthersUnchanged(ret'.id)
        /\ ret'.op = "delete" =>
              /\ ~MapHas(documents', ret'.id)
              /\ OthersUnchanged(ret'.id)
        /\ ret'.op = "findById" =>
              /\ documents' = documents
              /\ ret'.value = MapGet(documents, ret'.id)
        /\ ret'.op = "findAll" =>
              /\ documents' = documents
              /\ \A i \in 1..Len(ret'.value) :
                     \E k \in MapKeys(documents) : ret'.value[i] = MapGet(documents, k)
        /\ ret'.op = "search" =>
              /\ documents' = documents
              /\ \A i \in 1..Len(ret'.value) :
                     \E k \in MapKeys(documents) : ret'.value[i].document = MapGet(documents, k)
      ]_vars

C17_Witness ==
    /\ ret.op = "findAll"
    /\ Len(ret.value) = 2
    /\ ret.value[1].updatedAt = 1
    /\ ret.value[1].id # documents[1].key
    /\ ret.value[2].updatedAt = 0

(* C18: update(id, partial) on a stored id stores and returns the existing
   record overlaid with the given fields and with updatedAt set to the time of
   the call, and leaves every other document as it was; on an id the store
   does not hold it fails with "Document with id <id> not found" and changes
   nothing *)
C18_UpdateMergesAndRefreshes ==
    [][ ret'.op = "update" =>
          IF MapHas(documents, ret'.id)
          THEN LET existing == MapGet(documents, ret'.id)
                   expected == [f \in DOMAIN existing |->
                                   IF f = "updatedAt" THEN ret'.now
                                   ELSE IF f \in DOMAIN ret'.partial THEN ret'.partial[f]
                                   ELSE existing[f]]
               IN  /\ "threw" \notin DOMAIN ret'
                   /\ ret'.value = expected
                   /\ MapGet(documents', ret'.id) = expected
                   /\ OthersUnchanged(ret'.id)
          ELSE /\ "value" \notin DOMAIN ret'
               /\ ret'.threw = <<"Document with id ", ToString(ret'.id), " not found">>
               /\ documents' = documents
      ]_vars

C18_Witness ==
    /\ ret.op = "update"
    /\ Len(documents) = 2
    /\ DOMAIN ret.partial = {"title"}
    /\ "value" \in DOMAIN ret
    /\ ret.value.title = ret.partial.title
    /\ ret.value.updatedAt = 1
    /\ MapGet(documents, ret.id) = ret.value
    /\ \E k \in MapKeys(documents) : k # ret.id /\ MapGet(documents, k).updatedAt = 0

-----------------------------------------------------------------------------
(* save, delete and findById of the three stores: LegalDocumentRepository,
   LegalQueryRepository and LegalWritingRepository *)

SampleQueries == [id : Ids, question : {SampleQuestion}, queryType : {"LEGAL_QUESTION"}]

SampleWritings ==
    [id : Ids, title : { <<"T">> }, prompt : {SampleQuestion}, documentType : {"COMPLAINT"}]

SaveQuery(query) ==
    /\ queries' = MapSet(queries, query.id, query)
    /\ ret' = [op |-> "saveQuery", value |-> query]
    /\ UNCHANGED <<documents, qResponses, writings, wResponses, nextId, result, calc>>

DeleteQuery(id) ==
    /\ queries' = MapDelete(queries, id)
    /\ ret' = [op |-> "deleteQuery", id |-> id, value |-> MapHas(queries, id)]
    /\ UNCHANGED <<documents, qResponses, writings, wResponses, nextId, result, calc>>

FindQueryById(id) ==
    /\ ret' = [op |-> "findQueryById", id |-> id, value |-> MapGet(queries, id)]
    /\ UNCHANGED <<documents, queries, qResponses, writings, wResponses, nextId, result, calc>>

SaveWriting(writing) ==
    /\ writings' = MapSet(writings, writing.id, writing)
    /\ ret' = [op |-> "saveWriting", value |-> writing]
    /\ UNCHANGED <<documents, queries, qResponses, wResponses, nextId, result, calc>>

DeleteWriting(id) ==
    /\ writings' = MapDelete(writings, id)
    /\ ret' = [op |-> "deleteWriting", id |-> id, value |-> MapHas(writings, id)]
    /\ UNCHANGED <<documents, queries, qResponses, wResponses, nextId, result, calc>>

FindWritingById(id) ==
    /\ ret' = [op |-> "findWritingById", id |-> id, value |-> MapGet(writings, id)]
    /\ UNCHANGED <<documents, queries, qResponses, writings, wResponses, nextId, result, calc>>

DeleteNext ==
    \/ \E d \in {x \in StoreDocs : x.title = <<"T">>} : Save(d)
    \/ \E id \in Ids : Delete(id)
    \/ \E id \in Ids : FindById(id)
    \/ \E q \in SampleQueries : SaveQuery(q)
    \/ \E id \in Ids : DeleteQuery(id)
    \/ \E id \in Ids : FindQueryById(id)
    \/ \E w \in SampleWritings : SaveWriting(w)
    \/ \E id \in Ids : DeleteWriting(id)
    \/ \E id \in Ids : FindWritingById(id)

SpecDelete == Init /\ [][DeleteNext]_vars

(* delete(id) took store before to after and returned value *)
DeletedFrom(before, after, id, value) ==
    /\ value = (\E i \in 1..Len(before) : before[i].key = id)
    /\ \A i \in 1..Len(after) : after[i].key # id
    /\ MapGet(after, id) = Null
    /\ after = SelectSeq(before, LAMBDA e : e.key # id)

DeleteOps == {"delete", "deleteQuery", "deleteWriting"}

(* C19: delete(id) on each of the three stores returns true exactly when id
   was stored; afterwards findById(id) returns null and every other record is
   as it was; a delete(id) that follows at once returns false *)
C19_DeleteReportsPresence ==
    [][ /\ ret'.op = "delete" =>
              /\ DeletedFrom(documents, documents', ret'.id, ret'.value)
              /\ UNCHANGED <<queries, writings>>
        /\ ret'.op = "deleteQuery" =>
              /\ DeletedFrom(queries, queries', ret'.id, ret'.value)
              /\ UNCHANGED <<documents, writings>>
        /\ ret'.op = "deleteWriting" =>
              /\ DeletedFrom(writings, writings', ret'.id, ret'.value)
              /\ UNCHANGED <<documents, queries>>
        /\ (ret.op \in DeleteOps /\ ret'.op = ret.op /\ ret'.id = ret.id) =>
              ret'.value = FALSE
        /\ (ret.op = "delete" /\ ret'.op = "findById" /\ ret'.id = ret.id) =>
              ret'.value = Null
        /\ (ret.op = "deleteQuery" /\ ret'.op = "findQueryById" /\ ret'.id = ret.id) =>
              ret'.value = Null
        /\ (ret.op = "deleteWriting" /\ ret'.op = "findWritingById" /\ ret'.id = ret.id) =>
              ret'.value = Null
      ]_vars

C19_Witness ==
    /\ ret.op = "deleteQuery"
    /\ ret.value = TRUE
    /\ Len(queries) = 1
    /\ queries[1].key # ret.id
    /\ Len(documents) = 1
    /\ Len(writings) = 1

-----------------------------------------------------------------------------
(* The POST endpoints of DocumentController, LegalQueryController and
   LegalWritingController *)

(* new HttpException(response, status) *)
HttpException(message, status) == [status |-> status, message |-> message]

(* try { result = await execute(...); if (!result.success) throw new
   HttpException(result.message, BAD_REQUEST); return result } catch (error)
   { throw new HttpException(prefix + error.message, INTERNAL_SERVER_ERROR) } *)
EndpointOutcome(prefix, reply) ==
    LET tried == IF reply.raised THEN Throws([message |-> reply.message])
                 ELSE IF ~reply.success
                      THEN Throws(HttpException(reply.message, "BAD_REQUEST"))
                      ELSE Returns(reply)
    IN  IF tried.ok
        THEN [status |-> "CREATED", message |-> <<>>, body |-> tried.value]
        ELSE HttpException(prefix \o tried.message.message, "INTERNAL_SERVER_ERROR")
                 @@ [body |-> Null]

IndexBodies == IndexRequests \ {Null}

QueryBodies == QueryRequests \ {Null}

WritingBodies == WritingRequests \ {Null}

(* POST /documents/index *)
PostDocumentsIndex(body, fault) ==
    /\ nextId + 1 <= MaxUuid
    /\ LET done == IndexDocumentExecute(documents, nextId,
                       [filePath |-> body.filePath, documentType |-> body.documentType], fault)
       IN  /\ documents' = done.documents
           /\ nextId' = done.nextId
           /\ ret' = [op |-> "POST /documents/index", reply |-> done.reply,
                      http |-> EndpointOutcome(<<"Failed to index document: ">>, done.reply)]
    /\ UNCHANGED <<queries, qResponses, writings, wResponses, result, calc>>

(* POST /legal-queries *)
PostLegalQueries(body, fault, aiAnswer, aiReasoning) ==
    /\ nextId + 3 <= MaxUuid
    /\ LET try == ProcessLegalQueryTry([question |-> body.question, queryType |-> body.queryType],
                                       fault, aiAnswer, aiReasoning)
           reply == ProcessLegalQueryReply(try.out)
       IN  /\ queries' = try.queries
           /\ qResponses' = try.qResponses
           /\ nextId' = try.nextId
           /\ ret' = [op |-> "POST /legal-queries", reply |-> reply,
                      http |-> EndpointOutcome(<<"Failed to process legal query: ">>, reply)]
    /\ UNCHANGED <<documents, writings, wResponses, result, calc>>

(* POST /legal-writing/generate *)
PostLegalWritingGenerate(body, fault, ai) ==
    /\ nextId + 3 <= MaxUuid
    /\ LET try == GenerateLegalDocumentTry([title |-> body.title, prompt |-> body.prompt,
                                            documentType |-> body.documentType], fault, ai)
           reply == GenerateLegalDocumentReply(try.out)
       IN  /\ writings' = try.writings
           /\ wResponses' = try.wResponses
           /\ nextId' = try.nextId
           /\ ret' = [op |-> "POST /legal-writing/generate", reply |-> reply,
                      http |-> EndpointOutcome(<<"Failed to generate legal document: ">>, reply)]
    /\ UNCHANGED <<documents, queries, qResponses, result, calc>>

HttpNext ==
    \/ \E b \in IndexBodies, f \in IndexFaults : PostDocumentsIndex(b, f)
    \/ \E b \in QueryBodies, f \in UseCaseFaults, a1 \in AiOutcomes, a2 \in AiOutcomes :
          PostLegalQueries(b, f, a1, a2)
    \/ \E b \in WritingBodies, f \in UseCaseFaults, a \in AiOutcomes :
          PostLegalWritingGenerate(b, f, a)

SpecHttp == Init /\ [][HttpNext]_vars

PostOps == {"POST /documents/index", "POST /legal-queries", "POST /legal-writing/generate"}

(* C20: a use case reply with success=false is answered with status 400
   carrying the reply's message, and status 500 is answered only when the use
   case call itself raised *)
C20_FailedReplyAnswered400 ==
    ret.op \in PostOps =>
        /\ (~ret.reply.raised /\ ~ret.reply.success) =>
               /\ ret.http.status = "BAD_REQUEST"
               /\ ret.http.message = ret.reply.message
        /\ ret.http.status = "INTERNAL_SERVER_ERROR" => ret.reply.raised

(* what the three endpoints answer: 201 with the reply when it reports
   success, otherwise 500 with the reply's message behind the endpoint's own
   prefix; never 400 *)
EndpointsAnswer500OnFailedReply ==
    ret.op \in PostOps =>
        /\ ret.http.status # "BAD_REQUEST"
        /\ ret.reply.success <=> ret.http.status = "CREATED"
        /\ ~ret.reply.success =>
               /\ ret.http.status = "INTERNAL_SERVER_ERROR"
               /\ \E n \in 1..Len(ret.http.message) :
                      SubSeq(ret.http.message, n + 1, Len(ret.http.message)) = ret.reply.message

-----------------------------------------------------------------------------
(* Titles of ingested documents: DocumentIndexingService.extractTitle on the
   file name and the text pdf-parse extracted *)

MaxTitleLines == 3

Chars(n, c) == [i \in 1..n |-> c]

RightsLine ==
    <<"R", "I", "G", "H", "T", "S", " ", "O", "F", " ", "T", "H", "E", " ", "C", "H", "I", "L", "D">>

EveryLine ==
    <<"E", "v", "e", "r", "y", " ", "c", "h", "i", "l", "d", " ", "h", "a", "s", " ",
      "r", "i", "g", "h", "t", "s", ".">>

(* lines of an extracted text: blank ones, short ones with and without white
   space around them, and ones at the threshold *)
TitleLines ==
    { <<>>, <<" ", "\t">>, RightsLine, EveryLine, <<" ", "T", " ">>,
      Chars(TitleMaxLength - 1, "x"), Chars(TitleMaxLength, "x"),
      <<" ", " ">> \o Chars(TitleMaxLength - 2, "x") }

TitleFileNames ==
    { <<"a", ".", "p", "d", "f">>, <<"b", ".", "c", ".", "p", "d", "f">>, <<"l", "a", "w">> }

ApplyExtractTitle(fileName, lines) ==
    /\ calc = NoCall
    /\ LET content == Join(lines, <<"\n">>)
       IN  calc' = [op |-> "extractTitle", fileName |-> fileName, lines |-> lines,
                    content |-> content, value |-> extractTitle(fileName, content)]
    /\ UNCHANGED otherThanCalc

TitleNext ==
    \E n \in {k \in 0..MaxTitleLines : calc = NoCall} :
        \E lines \in [1..n -> TitleLines], fileName \in TitleFileNames :
            ApplyExtractTitle(fileName, lines)

SpecTitle == Init /\ [][TitleNext]_vars

NonBlank(line) == \E i \in 1..Len(line) : line[i] \notin WhiteSpace

(* name is fileName with its extension, the part from the last dot on, taken off *)
WithoutExtension(name, fileName) ==
    \E n \in 0..Len(fileName) :
        /\ name = SubSeq(fileName, 1, n)
        /\ \A i \in n + 2..Len(fileName) : fileName[i] # "."
        /\ n < Len(fileName) => fileName[n + 1] = "."
        /\ n > 0

(* C21: the title is the first non-blank line of the extracted text, without
   the white space around it, when that line is shorter than 100 characters;
   otherwise, and when no line is non-blank, it is the file name without its
   extension; "RIGHTS OF THE CHILD\nEvery child has rights." is titled
   "RIGHTS OF THE CHILD" *)
C21_TitleFromFirstLine ==
    calc.op = "extractTitle" =>
        LET nonBlank == {i \in 1..Len(calc.lines) : NonBlank(calc.lines[i])}
            first    == CHOOSE i \in nonBlank : \A j \in nonBlank : i <= j
        IN  /\ (nonBlank # {} /\ Len(calc.lines[first]) < TitleMaxLength)
                   => calc.value = Trim(calc.lines[first])
            /\ (nonBlank = {} \/ Len(calc.lines[first]) >= TitleMaxLength)
                   => WithoutExtension(calc.value, calc.fileName)
            /\ calc.lines = <<RightsLine, EveryLine>> => calc.value = RightsLine

C21_Witness ==
    /\ calc.op = "extractTitle"
    /\ Len(calc.lines) = MaxTitleLines
    /\ calc.lines[1] = <<>>
    /\ calc.lines[2] = <<" ", "T", " ">>
    /\ calc.value = <<"T">>

-----------------------------------------------------------------------------
(* The console handlers: ConsoleService.indexDocument, processQuery and
   generateDocument, called with the words of a command line *)

WritingDocumentType ==
    {"COMPLAINT", "MOTION", "BRIEF", "CONTRACT", "LEGAL_OPINION", "DEMAND_LETTER", "OTHER"}

MaxArgs == 4

Words == {"a.pdf", "CIVIL_CODE", "COMPLAINT", "b"}

(* the characters of a word *)
WordText(w) ==
    CASE w = "a.pdf" -> GoodPath
      [] w = "CIVIL_CODE" -> <<"C", "I", "V", "I", "L", "_", "C", "O", "D", "E">>
      [] w = "COMPLAINT" -> <<"C", "O", "M", "P", "L", "A", "I", "N", "T">>
      [] w = "b" -> <<"b">>

ArgLists == UNION { [1..n -> Words] : n \in 0..MaxArgs }

(* args.join(' ') *)
JoinWords(args) == Join([i \in 1..Len(args) |-> WordText(args[i])], <<" ">>)

(* the use case's promise rejecting *)
Rejection == Throws(<<"Unexpected error">>)

(* a handler letting the rejection of its use case through *)
ConsoleReportRethrows(out) ==
    IF ~out.ok THEN [threw |-> TRUE, shown |-> "error"]
    ELSE IF out.value.success THEN [threw |-> FALSE, shown |-> "success"]
    ELSE [threw |-> FALSE, shown |-> "failure"]

(* try { result = await execute(..); if (result.success) {..} else {..} }
   catch (error) { console.log(..) } *)
ConsoleReport(out) ==
    IF ~out.ok THEN [threw |-> FALSE, shown |-> "error"]
    ELSE IF out.value.success THEN [threw |-> FALSE, shown |-> "success"]
    ELSE [threw |-> FALSE, shown |-> "failure"]

(* a handler returning before it calls its use case *)
ConsoleReturns(op, args, shown) ==
    /\ ret' = [op |-> op, args |-> args, calls |-> <<>>, threw |-> FALSE, shown |-> shown]
    /\ UNCHANGED <<documents, queries, qResponses, writings, wResponses, nextId, result, calc>>

ConsoleIndexDocument(args, fault, rejects) ==
    IF Len(args) < 2 THEN ConsoleReturns("console index", args, "usage")
    ELSE LET filePath     == WordText(args[1])
             documentType == args[2]
             request      == [filePath |-> filePath, documentType |-> documentType]
             done         == IndexDocumentExecute(documents, nextId, request, fault)
         IN  IF documentType \notin DocumentType
             THEN ConsoleReturns("console index", args, "invalid type")
             ELSE /\ nextId + 1 <= MaxUuid
                  /\ documents' = IF rejects THEN documents ELSE done.documents
                  /\ nextId' = IF rejects THEN nextId ELSE done.nextId
                  /\ ret' = [op |-> "console index", args |-> args, calls |-> <<request>>]
                                @@ ConsoleReport(IF rejects THEN Rejection ELSE Returns(done.reply))
                  /\ UNCHANGED <<queries, qResponses, writings, wResponses, result, calc>>

ConsoleProcessQuery(args, fault, aiAnswer, aiReasoning, rejects) ==
    IF Len(args) = 0 THEN ConsoleReturns("console query", args, "usage")
    ELSE LET question == JoinWords(args)
             request  == [question |-> question, queryType |-> "LEGAL_QUESTION"]
             try      == ProcessLegalQueryTry(request, fault, aiAnswer, aiReasoning)
         IN  /\ nextId + 3 <= MaxUuid
             /\ queries' = IF rejects THEN queries ELSE try.queries
             /\ qResponses' = IF rejects THEN qResponses ELSE try.qResponses
             /\ nextId' = IF rejects THEN nextId ELSE try.nextId
             /\ ret' = [op |-> "console query", args |-> args, calls |-> <<request>>]
                           @@ ConsoleReport(IF rejects THEN Rejection
                                            ELSE Returns(ProcessLegalQueryReply(try.out)))
             /\ UNCHANGED <<documents, writings, wResponses, result, calc>>

ConsoleGenerateDocument(args, fault, ai, rejects) ==
    IF Len(args) < 3 THEN ConsoleReturns("console generate", args, "usage")
    ELSE LET title        == WordText(args[1])
             documentType == args[Len(args)]
             prompt       == JoinWords(SubSeq(args, 2, Len(args) - 1))
             request      == [title |-> title, prompt |-> prompt, documentType |-> documentType]
             try          == GenerateLegalDocumentTry(request, fault, ai)
         IN  IF documentType \notin WritingDocumentType
             THEN ConsoleReturns("console generate", args, "invalid type")
             ELSE /\ nextId + 3 <= MaxUuid
                  /\ writings' = IF rejects THEN writings ELSE try.writings
                  /\ wResponses' = IF rejects THEN wResponses ELSE try.wResponses
                  /\ nextId' = IF rejects THEN nextId ELSE try.nextId
                  /\ ret' = [op |-> "console generate", args |-> args, calls |-> <<request>>]
                                @@ ConsoleReport(IF rejects THEN Rejection
                                                 ELSE Returns(GenerateLegalDocumentReply(try.out)))
                  /\ UNCHANGED <<documents, queries, qResponses, result, calc>>

(* the command lines a run may take: one per run *)
CommandLines == {args \in ArgLists : ret = NoCall}

ConsoleNext ==
    \/ \E args \in CommandLines, f \in IndexFaults, rejects \in BOOLEAN :
          ConsoleIndexDocument(args, f, rejects)
    \/ \E args \in CommandLines, f \in UseCaseFaults, a \in AiOutcomes, rejects \in BOOLEAN :
          ConsoleProcessQuery(args, f, a, a, rejects)
    \/ \E args \in CommandLines, f \in UseCaseFaults, a \in AiOutcomes, rejects \in BOOLEAN :
          ConsoleGenerateDocument(args, f, a, rejects)

SpecConsole == Init /\ [][ConsoleNext]_vars

ConsoleOps == {"console index", "console query", "console generate"}

(* the words of args from position from to position to, with single spaces between *)
WordsBetween(args, from, to) ==
    Join([i \in 1..(to - from + 1) |-> WordText(args[from + i - 1])], <<" ">>)

(* C22: a console handler calls its use case only when it has enough
   arguments (2 for index, 1 for query, 3 for generate) and the document type
   is in its enumeration; the request it passes holds the arguments as given
   (for generate: title the first, type the last, prompt the ones between);
   and it completes without throwing, also when the use case rejects *)
C22_ConsoleHandlersGuardAndPass ==
    ret.op \in ConsoleOps =>
        LET args == ret.args
            n    == Len(ret.args)
        IN  /\ ~ret.threw
            /\ Len(ret.calls) <= 1
            /\ ret.op = "console index" =>
                   /\ ret.calls # <<>> <=> (n >= 2 /\ args[2] \in DocumentType)
                   /\ ret.calls # <<>> =>
                          ret.calls[1] = [filePath |-> WordText(args[1]), documentType |-> args[2]]
            /\ ret.op = "console query" =>
                   /\ ret.calls # <<>> <=> n >= 1
                   /\ ret.calls # <<>> => ret.calls[1].question = WordsBetween(args, 1, n)
            /\ ret.op = "console generate" =>
                   /\ ret.calls # <<>> <=> (n >= 3 /\ args[n] \in WritingDocumentType)
                   /\ ret.calls # <<>> =>
                          ret.calls[1] = [title |-> WordText(args[1]),
                                          prompt |-> WordsBetween(args, 2, n - 1),
                                          documentType |-> args[n]]

C22_Witness ==
    /\ ret.op = "console generate"
    /\ Len(ret.args) = MaxArgs
    /\ ret.calls # <<>>
    /\ ret.shown = "error"
    /\ ~ret.threw

-----------------------------------------------------------------------------
(* Startup: ConsoleService.start indexing what lies under the assets directory *)

(* what may lie under the assets directory, in the order readdirSync lists it,
   each as the names on its path; a disk is the set of positions that are there *)
AssetTree ==
    << <<GoodPath>>,
       <<<<"c", "i", "v", "i", "l", "-", "c", "o", "d", "e">>, <<"c", ".", "p", "d", "f">>>>,
       <<<<"c", "i", "v", "i", "l", "-", "c", "o", "d", "e">>, <<"D", ".", "P", "D", "F">>>>,
       <<<<"m", "i", "s", "c">>, <<"n", ".", "t", "x", "t">>>>,
       <<<<"m", "i", "s", "c">>, <<"o", "l", "d">>, <<"o", ".", "p", "d", "f">>>>,
       <<<<"m", "i", "s", "c">>, <<"x", ".", "p", "d", "f">>>>,
       <<<<"m", "i", "s", "c">>, <<"y", ".", "p", "d", "f">>>> >>

Disks == SUBSET (1..Len(AssetTree))

Positions == [i \in 1..Len(AssetTree) |-> i]

(* the path of the names parts *)
PathOf(parts) == Join(parts, <<"/">>)

(* String.prototype.endsWith *)
EndsWith(s, t) == Len(s) >= Len(t) /\ SubSeq(s, Len(s) - Len(t) + 1, Len(s)) = t

(* documentTypeMapping[subdir] || DocumentType.OTHER *)
documentTypeMapping(subdir) ==
    CASE subdir = <<"p", "e", "n", "a", "l", "-", "c", "o", "d", "e">> -> "PENAL_CODE"
      [] subdir = <<"c", "i", "v", "i", "l", "-", "c", "o", "d", "e">> -> "CIVIL_CODE"
      [] subdir = <<"c", "o", "m", "m", "e", "r", "c", "i", "a", "l", "-", "c", "o", "d", "e">> -> "COMMERCIAL_CODE"
      [] subdir = <<"c", "a", "s", "e", "-", "l", "a", "w">> -> "CASE_LAW"
      [] subdir = <<"l", "e", "g", "a", "l", "-", "o", "p", "i", "n", "i", "o", "n">> -> "LEGAL_OPINION"
      [] subdir = <<"c", "o", "n", "s", "t", "i", "t", "u", "t", "i", "o", "n">> -> "OTHER"
      [] subdir = <<"l", "a", "w", "s">> -> "OTHER"
      [] subdir = <<"d", "o", "c", "t", "r", "i", "n", "e">> -> "LEGAL_OPINION"
      [] OTHER -> "OTHER"

(* readdirSync(assetsPath, {withFileTypes: true}).filter(isDirectory): the
   positions at which a folder of the assets directory is first listed *)
Subdirs(disk) ==
    SelectSeq(Positions, LAMBDA i :
        /\ i \in disk
        /\ Len(AssetTree[i]) >= 2
        /\ \A j \in disk : (j < i /\ Len(AssetTree[j]) >= 2) => AssetTree[j][1] # AssetTree[i][1])

(* readdirSync(subdirPath): the positions at which an entry of the folder is
   first listed, a file or a folder of its own *)
EntriesOf(disk, subdir) ==
    SelectSeq(Positions, LAMBDA i :
        /\ i \in disk
        /\ Len(AssetTree[i]) >= 2
        /\ AssetTree[i][1] = subdir
        /\ \A j \in disk : (j < i /\ Len(AssetTree[j]) >= 2 /\ AssetTree[j][1] = subdir)
                           => AssetTree[j][2] # AssetTree[i][2])

(* the requests of one folder: its entries named *.pdf, joined to the folder *)
FolderRequests(disk, subdir) ==
    LET pdfs == SelectSeq(EntriesOf(disk, subdir), LAMBDA i :
                    EndsWith(ToLowerCase(AssetTree[i][2]), <<".", "p", "d", "f">>))
    IN  [k \in 1..Len(pdfs) |->
            [filePath |-> subdir \o <<"/">> \o AssetTree[pdfs[k]][2],
             documentType |-> documentTypeMapping(subdir)]]

(* the requests of the folders from the k-th on, after those in acc *)
RECURSIVE ScanFolders(_, _, _, _)
ScanFolders(acc, disk, subdirs, k) ==
    IF k > Len(subdirs) THEN acc
    ELSE ScanFolders(acc \o FolderRequests(disk, AssetTree[subdirs[k]][1]), disk, subdirs, k + 1)

(* one turn of the loop over the files: the call of the use case, in a try of
   its own, and the counting of its result *)
AutoIndexStep(acc, request, fault) ==
    CHOOSE next \in
        { [calls |-> Append(acc.calls, request),
           results |-> Append(acc.results, item.reply),
           documents |-> item.documents,
           nextId |-> item.nextId,
           indexedCount |-> acc.indexedCount + (IF item.reply.success THEN 1 ELSE 0),
           errorCount |-> acc.errorCount + (IF item.reply.success THEN 0 ELSE 1)] :
          item \in {IndexDocumentExecute(acc.documents, acc.nextId, request, fault)} } : TRUE

(* the loop over the files, from the i-th on *)
RECURSIVE AutoIndexLoop(_, _, _, _)
AutoIndexLoop(acc, requests, failing, i) ==
    IF i > Len(requests)
    THEN acc
    ELSE CHOOSE done \in
             { AutoIndexLoop(next, requests, failing, i + 1) :
               next \in {AutoIndexStep(acc, requests[i], IF i \in failing THEN "save" ELSE "none")} } :
             TRUE

(* autoIndexAssets on a disk; failing holds the calls whose save is refused *)
AutoIndexAssets(disk) ==
    /\ ret = NoCall
    /\ LET requests == ScanFolders(<<>>, disk, Subdirs(disk), 1)
       IN  /\ nextId + Len(requests) <= MaxUuid
           /\ \E failing \in SUBSET (1..Len(requests)) :
                 LET done == AutoIndexLoop([calls |-> <<>>, results |-> <<>>,
                                            documents |-> documents, nextId |-> nextId,
                                            indexedCount |-> 0, errorCount |-> 0],
                                           requests, failing, 1)
                 IN  /\ documents' = done.documents
                     /\ nextId' = done.nextId
                     /\ ret' = [op |-> "autoIndexAssets", disk |-> {AssetTree[i] : i \in disk},
                                calls |-> done.calls, results |-> done.results,
                                indexedCount |-> done.indexedCount,
                                errorCount |-> done.errorCount]
    /\ UNCHANGED <<queries, qResponses, writings, wResponses, result, calc>>

StartupNext == \E disk \in {d \in Disks : ret = NoCall} : AutoIndexAssets(disk)

SpecStartup == Init /\ [][StartupNext]_vars

IsPdf(parts) == EndsWith(ToLowerCase(parts[Len(parts)]), <<".", "p", "d", "f">>)

(* the folder a file lies in: the last folder on its path, none for a file of
   the assets directory itself *)
FolderOf(parts) == IF Len(parts) >= 2 THEN parts[Len(parts) - 1] ELSE <<>>

CallsFor(parts) == {k \in 1..Len(ret.calls) : ret.calls[k].filePath = PathOf(parts)}

(* C23: at startup every PDF file in the assets directory or in a folder below
   it is submitted to indexing exactly once, with the category of its folder
   (OTHER for a folder without one), whatever becomes of the other files *)
C23_EveryPdfSubmittedOnce ==
    ret.op = "autoIndexAssets" =>
        \A p \in ret.disk :
            IsPdf(p) =>
                /\ Cardinality(CallsFor(p)) = 1
                /\ \A k \in CallsFor(p) :
                       ret.calls[k].documentType = documentTypeMapping(FolderOf(p))

(* what the scan does submit: the PDF files lying directly in a folder of the
   assets directory, each once, with the folder's category, the files after a
   failed one included; nothing else *)
FoldersOfAssetsScanned ==
    ret.op = "autoIndexAssets" =>
        /\ \A p \in ret.disk :
               /\ Cardinality(CallsFor(p)) = IF IsPdf(p) /\ Len(p) = 2 THEN 1 ELSE 0
               /\ \A k \in CallsFor(p) : ret.calls[k].documentType = documentTypeMapping(p[1])
        /\ \A k \in 1..Len(ret.calls) : \E p \in ret.disk : k \in CallsFor(p)
        /\ Len(ret.results) = Len(ret.calls)
        /\ ret.indexedCount + ret.errorCount = Len(ret.calls)

-----------------------------------------------------------------------------
(* calculateRelevanceScore of LegalQueryService and LegalWritingService on
   short texts, the empty one and those of spaces among them *)

MaxTextLength == 3

TextChars == {"a", "B", " "}

ShortTexts == UNION { [1..n -> TextChars] : n \in 0..MaxTextLength }

ApplyCalculateRelevanceScore(content, query) ==
    /\ calc = NoCall
    /\ calc' = [op |-> "calculateRelevanceScore", content |-> content, query |-> query,
                words |-> Len(Split(ToLowerCase(query))),
                value |-> calculateRelevanceScore(content, query)]
    /\ UNCHANGED otherThanCalc

RelevanceNext ==
    \E content \in {c \in ShortTexts : calc = NoCall}, query \in ShortTexts :
        ApplyCalculateRelevanceScore(content, query)

SpecRelevance == Init /\ [][RelevanceNext]_vars

(* the query holds no token: it is empty or made of spaces *)
NoToken(query) == \A i \in 1..Len(query) : query[i] = " "

(* C25: calculateRelevanceScore yields a number in [0, 1] for every query, and
   0 for a query without tokens, whatever the content *)
C25_NoTokenScoresZero ==
    calc.op = "calculateRelevanceScore" =>
        /\ calc.value.den # 0
        /\ FracLeq(Frac(0, 1), calc.value)
        /\ FracLeq(calc.value, Frac(1, 1))
        /\ NoToken(calc.query) => FracEq(calc.value, Frac(0, 1))

(* what the code yields: a number in [0, 1], the divisor being the number of
   pieces split(' ') makes, which is never 0; a query without tokens scores 1,
   each of its empty pieces being found in every content *)
NoTokenScoresOne ==
    calc.op = "calculateRelevanceScore" =>
        /\ calc.words >= 1
        /\ calc.value.den # 0
        /\ FracLeq(Frac(0, 1), calc.value)
        /\ FracLeq(calc.value, Frac(1, 1))
        /\ NoToken(calc.query) => FracEq(calc.value, Frac(1, 1))

-----------------------------------------------------------------------------
(* extractRelevantSections of LegalQueryService and LegalWritingService on
   contents made of sentences around the length threshold *)

MaxSentences == 6

(* sentences: of 10 characters with the token "a" in upper case, of 11
   characters with the token and a space in front, and of 11 characters without
   the token *)
SentenceKinds ==
    { <<"A">> \o Chars(MinSentenceLength - 1, "x"),
      <<" ", "a">> \o Chars(MinSentenceLength, "y"),
      Chars(MinSentenceLength + 1, "x") }

SentenceEnds == { <<".">>, <<"?", "!">> }

SectionQueries == { <<"a">>, <<"z", " ", "A">> }

ApplyExtractRelevantSections(sentences, end, query) ==
    /\ calc = NoCall
    /\ LET content == Join(sentences, end)
       IN  calc' = [op |-> "extractRelevantSections", sentences |-> sentences,
                    content |-> content, query |-> query,
                    value |-> extractRelevantSections(content, query)]
    /\ UNCHANGED otherThanCalc

SectionsNext ==
    \E n \in {k \in 0..MaxSentences : calc = NoCall} :
        \E sentences \in [1..n -> SentenceKinds], end \in SentenceEnds, query \in SectionQueries :
            ApplyExtractRelevantSections(sentences, end, query)

SpecSections == Init /\ [][SectionsNext]_vars

(* a token of the query, lower-cased, occurs in the sentence, lower-cased *)
HoldsToken(sentence, query) ==
    \E i \in 1..Len(query), j \in 1..Len(query) :
        /\ i <= j
        /\ \A k \in i..j : query[k] # " "
        /\ i > 1 => query[i - 1] = " "
        /\ j < Len(query) => query[j + 1] = " "
        /\ Includes(ToLowerCase(sentence), ToLowerCase(SubSeq(query, i, j)))

(* the sentences of at least least characters that hold a token, in document
   order, without the white space around them: the first five *)
FirstQualifying(sentences, query, least) ==
    LET qualifying == SelectSeq(sentences, LAMBDA x :
                          Len(Trim(x)) >= least /\ HoldsToken(x, query))
    IN  [i \in 1..(IF Len(qualifying) < MaxRelevantSections THEN Len(qualifying)
                   ELSE MaxRelevantSections) |-> Trim(qualifying[i])]

(* C26: relevantSections holds at most 5 entries: the first sentences of the
   content, split on '.', '!' and '?', in document order, that have at least
   10 characters and hold a query token, none of the first five left out *)
C26_SentencesOfAtLeastTen ==
    calc.op = "extractRelevantSections" =>
        /\ Len(calc.value) <= MaxRelevantSections
        /\ calc.value = FirstQualifying(calc.sentences, calc.query, MinSentenceLength)

(* what the code keeps: the sentences of more than 10 characters *)
SentencesOfMoreThanTen ==
    calc.op = "extractRelevantSections" =>
        /\ Len(calc.value) <= MaxRelevantSections
        /\ calc.value = FirstQualifying(calc.sentences, calc.query, MinSentenceLength + 1)

-----------------------------------------------------------------------------
(* parseSections of LegalWritingService and LangChainService on texts of
   header lines and other lines in any order *)

MaxLines == 5

(* a numbered header, a header in capitals with a space in front, two lines of
   content, one of them indented, and a blank line *)
LineKinds ==
    { <<"1", ".", " ", "a">>, <<" ", "A", "B", "C", "D">>, <<"a", " ", "b">>, <<" ", "x">>, <<" ">> }

ApplyParseText(lines) ==
    /\ calc = NoCall
    /\ LET text == Join(lines, <<"\n">>)
       IN  calc' = [op |-> "parseText", lines |-> lines, text |-> text,
                    value |-> parseSections(text)]
    /\ UNCHANGED otherThanCalc

ParseTextNext ==
    \E n \in {k \in 0..MaxLines : calc = NoCall} :
        \E lines \in [1..n -> LineKinds] : ApplyParseText(lines)

SpecParseText == Init /\ [][ParseTextNext]_vars

DigitChars == {"0", "1", "2", "3", "4", "5", "6", "7", "8", "9"}

(* a header line: trimmed, it starts with digits and a dot, or it is longer
   than 3 characters and equal to its upper-cased form *)
HeaderLine(line) ==
    LET t == Trim(line)
    IN  \/ \E n \in 1..Len(t) - 1 : t[n + 1] = "." /\ \A i \in 1..n : t[i] \in DigitChars
        \/ (Len(t) > MinCapsHeaderLength /\ \A i \in 1..Len(t) : UpperChar(t[i]) = t[i])

(* the positions of the lines after the header at h, up to the next header *)
BlockOf(lines, h) ==
    {i \in h + 1..Len(lines) : \A j \in h + 1..i : ~HeaderLine(lines[j])}

(* the positions of the headers that have lines after them, in order *)
HeadersWithLines(lines) ==
    SelectSeq([i \in 1..Len(lines) |-> i],
              LAMBDA h : HeaderLine(lines[h]) /\ BlockOf(lines, h) # {})

(* the lines at the positions block, each followed by a line feed *)
BlockText(lines, block) ==
    LET first == CHOOSE i \in block : \A j \in block : i <= j
    IN  Join([k \in 1..Cardinality(block) |-> lines[first + k - 1] \o <<"\n">>], <<>>)

(* C27: a section holds the lines between its header and the next header and
   no others: the text before the first header is in no section, and the lines
   after the last header make the last section *)
C27_LinesBelongToNearestHeader ==
    calc.op = "parseText" =>
        LET hs == HeadersWithLines(calc.lines)
        IN  /\ Len(calc.value) = Len(hs)
            /\ \A k \in 1..Len(hs) :
                   /\ calc.value[k].title = Trim(calc.lines[hs[k]])
                   /\ calc.value[k].content = Trim(BlockText(calc.lines, BlockOf(calc.lines, hs[k])))

(* a line of text, then a header with one line, then a header with one line:
   two sections, the text in front in neither *)
C27_Witness ==
    /\ calc.op = "parseText"
    /\ Len(calc.lines) = MaxLines
    /\ ~HeaderLine(calc.lines[1])
    /\ HeaderLine(calc.lines[2])
    /\ HeaderLine(calc.lines[4])
    /\ Len(calc.value) = 2
    /\ calc.value[2].content = <<"x">>

(* C28 as stated: the order of a section is the position of its header among
   all the header lines of the text *)
C28_OrderCountsAllHeaders ==
    calc.op = "parseText" =>
        LET hs == HeadersWithLines(calc.lines)
        IN  \A k \in 1..Len(calc.value) :
                k <= Len(hs) =>
                    calc.value[k].order
                        = Cardinality({j \in 1..hs[k] : HeaderLine(calc.lines[j])})

(* C28: the order counter advances only when a section is emitted, so the
   order of a section is its position among the sections returned, which is
   the position of its header among the header lines that have lines after
   them; a header directly followed by another header takes no number *)
C28_OrderCountsEmittedSections ==
    calc.op = "parseText" =>
        LET hs == HeadersWithLines(calc.lines)
        IN  /\ Len(calc.value) = Len(hs)
            /\ \A k \in 1..Len(calc.value) :
                   /\ calc.value[k].order = k
                   /\ calc.value[k].title = Trim(calc.lines[hs[k]])

(* two headers in a row, then a line: one section, under the second header,
   with order 1 *)
C28_Witness ==
    /\ calc.op = "parseText"
    /\ Len(calc.lines) = 3
    /\ HeaderLine(calc.lines[1])
    /\ HeaderLine(calc.lines[2])
    /\ Len(calc.value) = 1
    /\ calc.value[1].order = 1
    /\ calc.value[1].title = <<"A", "B", "C", "D">>

-----------------------------------------------------------------------------
(* Responses and the Document Store *)

(* the responses kept in the stores and the one the last call returned *)
ResponsesBuilt ==
    {qResponses[i].val : i \in 1..Len(qResponses)}
        \cup {wResponses[i].val : i \in 1..Len(wResponses)}
        \cup (IF result.op \in {"processLegalQuery", "generateLegalDocument"}
                 /\ result.reply.success
              THEN {result.reply.response} ELSE {})

(* C29: whatever has been ingested and saved, every response of processQuery
   and of generateDocument lists no sources and has confidence 0.3: their
   retrieval step returns no documents, whatever the Document Store holds *)
C29_NoSourcesWhateverStored ==
    \A response \in ResponsesBuilt :
        /\ response.sources = <<>>
        /\ response.confidence = Frac(3, 10)

(* a query was answered after a document had been ingested and saved *)
C29_Witness ==
    /\ Len(documents) >= 1
    /\ result.op = "processLegalQuery"
    /\ result.reply.success
    /\ result.reply.response \in ResponsesBuilt
    /\ Len(qResponses) = 1

-----------------------------------------------------------------------------
(* Executions of ProcessLegalQueryUseCase.execute and of
   GenerateLegalDocumentUseCase.execute taking turns at their awaits: the call
   of the domain service, the save of the request and the save of the
   response.  calc holds the executions begun, each with the await it is at *)

MaxInFlight == 2

(* execute ending without the save of the response *)
ExecuteAfterForgetsResponse(pc, ok) ==
    IF ~ok THEN "done"
    ELSE IF pc = "service" THEN "save" ELSE "done"

(* where execute goes after the await at pc has resolved (ok) or rejected *)
ExecuteAfter(pc, ok) ==
    IF ~ok THEN "done"
    ELSE CASE pc = "service" -> "save"
           [] pc = "save" -> "saveResponse"
           [] pc = "saveResponse" -> "done"

Runs == IF calc = NoCall THEN <<>> ELSE calc.runs

ReplyOf(kind, out) ==
    IF kind = "processQuery" THEN ProcessLegalQueryReply(out) ELSE GenerateLegalDocumentReply(out)

(* the execution run once its await at pc has settled as out: where it goes,
   and what it returns when that is its end *)
Settled(run, pc, out) ==
    [run EXCEPT !.pc = ExecuteAfter(pc, out.ok),
                !.reply = IF ExecuteAfter(pc, out.ok) = "done"
                          THEN ReplyOf(run.kind, IF out.ok THEN Returns(run.response) ELSE out)
                          ELSE Null]

(* execute up to its first await; the query use case builds its LegalQuery,
   with a new id, before it calls the service *)
BeginExecute(kind) ==
    /\ Len(Runs) < MaxInFlight
    /\ LET request == IF kind = "processQuery"
                      THEN [question |-> SampleQuestion, queryType |-> Undefined]
                      ELSE [title |-> <<"T">>, prompt |-> SampleQuestion, documentType |-> "COMPLAINT"]
           record  == IF kind = "processQuery"
                      THEN [id |-> uuidv4(nextId), question |-> request.question,
                            queryType |-> "LEGAL_QUESTION"]
                      ELSE Null
       IN  /\ calc' = [op |-> "executions",
                       runs |-> Append(Runs, [kind |-> kind, pc |-> "service", request |-> request,
                                              record |-> record, response |-> Null,
                                              reply |-> Null, serviceFailed |-> FALSE])]
           /\ nextId' = IF kind = "processQuery" THEN nextId + 1 ELSE nextId
    /\ UNCHANGED <<documents, ret, queries, qResponses, writings, wResponses, result>>

(* the service resolves or rejects; the writing use case builds its
   LegalWriting, with a new id, once the service has resolved *)
ServiceSettles(i, ai, rejects) ==
    /\ i \in 1..Len(Runs) /\ Runs[i].pc = "service"
    /\ LET run == Runs[i]
           out == IF rejects THEN Throws(ServiceFault)
                  ELSE IF run.kind = "processQuery"
                       THEN processQuery(run.request, nextId, ai, ai)
                       ELSE generateDocument(run.request, nextId, ai)
           record == IF run.kind = "processQuery" \/ ~out.ok THEN run.record
                     ELSE [id |-> nextId + 3, title |-> run.request.title,
                           prompt |-> run.request.prompt,
                           documentType |-> run.request.documentType]
           used == IF ~out.ok THEN 0 ELSE IF run.kind = "processQuery" THEN 2 ELSE 3
       IN  /\ calc' = [calc EXCEPT !.runs[i] =
                          Settled([run EXCEPT !.record = record,
                                              !.response = IF out.ok THEN out.value ELSE Null,
                                              !.serviceFailed = ~out.ok],
                                  "service", out)]
           /\ nextId' = nextId + used
    /\ UNCHANGED <<documents, ret, queries, qResponses, writings, wResponses, result>>

(* repository.save(record) resolves or rejects *)
SaveSettles(i, rejects) ==
    /\ i \in 1..Len(Runs) /\ Runs[i].pc = "save"
    /\ LET run == Runs[i]
       IN  /\ calc' = [calc EXCEPT !.runs[i] =
                          Settled(run, "save", IF rejects THEN Throws(SaveFault) ELSE Returns(Null))]
           /\ queries' = IF ~rejects /\ run.kind = "processQuery"
                         THEN MapSet(queries, run.record.id, run.record) ELSE queries
           /\ writings' = IF ~rejects /\ run.kind = "generateDocument"
                          THEN MapSet(writings, run.record.id, run.record) ELSE writings
    /\ UNCHANGED <<documents, ret, qResponses, wResponses, nextId, result>>

(* repository.saveResponse(response) resolves or rejects; execute returns *)
SaveResponseSettles(i, rejects) ==
    /\ i \in 1..Len(Runs) /\ Runs[i].pc = "saveResponse"
    /\ LET run == Runs[i]
       IN  /\ calc' = [calc EXCEPT !.runs[i] =
                          Settled(run, "saveResponse",
                                  IF rejects THEN Throws(SaveResponseFault) ELSE Returns(Null))]
           /\ qResponses' = IF ~rejects /\ run.kind = "processQuery"
                            THEN MapSet(qResponses, run.response.id, run.response) ELSE qResponses
           /\ wResponses' = IF ~rejects /\ run.kind = "generateDocument"
                            THEN MapSet(wResponses, run.response.id, run.response) ELSE wResponses
    /\ UNCHANGED <<documents, ret, queries, writings, nextId, result>>

InterleaveNext ==
    \/ \E kind \in RequestKinds : BeginExecute(kind)
    \/ \E i \in 1..MaxInFlight, ai \in AiOutcomes, rejects \in BOOLEAN : ServiceSettles(i, ai, rejects)
    \/ \E i \in 1..MaxInFlight, rejects \in BOOLEAN : SaveSettles(i, rejects)
    \/ \E i \in 1..MaxInFlight, rejects \in BOOLEAN : SaveResponseSettles(i, rejects)

SpecInterleave == Init /\ [][InterleaveNext]_vars

RequestStore(kind) == IF kind = "processQuery" THEN queries ELSE writings

ResponseStore(kind) == IF kind = "processQuery" THEN qResponses ELSE wResponses

RequestSaved(run) ==
    run.record # Null /\ \E e \in 1..Len(RequestStore(run.kind)) :
                             RequestStore(run.kind)[e] = [key |-> run.record.id, val |-> run.record]

ResponseSaved(run) ==
    run.response # Null /\ \E e \in 1..Len(ResponseStore(run.kind)) :
                               ResponseStore(run.kind)[e] = [key |-> run.response.id, val |-> run.response]

(* C30: in both use cases the request is saved only after the service has
   returned a response, and before the response is saved; an execution whose
   service failed leaves both stores as they were; an execution that returned
   success=true has its request and its response in the stores; all this with
   other executions in between *)
C30_SaveOrderUnderInterleaving ==
    /\ \A i \in 1..Len(Runs) :
           LET run == Runs[i]
           IN  /\ RequestSaved(run) => (run.response # Null /\ run.pc \in {"saveResponse", "done"})
               /\ ResponseSaved(run) => RequestSaved(run)
               /\ run.serviceFailed => (~RequestSaved(run) /\ ~ResponseSaved(run))
               /\ (run.reply # Null /\ run.reply.success) => (RequestSaved(run) /\ ResponseSaved(run))
               /\ (run.pc = "done" /\ run.reply # Null) =>
                      (run.reply.success <=> ResponseSaved(run))
    /\ Len(queries) + Len(writings) = Cardinality({i \in 1..Len(Runs) : RequestSaved(Runs[i])})
    /\ Len(qResponses) + Len(wResponses) = Cardinality({i \in 1..Len(Runs) : ResponseSaved(Runs[i])})

(* a query and a document generation in turn: the second began before the
   first had saved anything, and both returned success *)
C30_Witness ==
    /\ Len(Runs) = 2
    /\ Runs[1].kind = "processQuery"
    /\ Runs[2].kind = "generateDocument"
    /\ Runs[1].reply # Null /\ Runs[1].reply.success
    /\ Runs[2].reply # Null /\ Runs[2].reply.success
    /\ Runs[1].record.id < Runs[2].response.id
    /\ Runs[2].response.id < Runs[1].response.id

=============================================================================
